---- MODULE Spec2Model ----
(***************************************************************************)
(* A model of the DV360 alert engine: the pandas evaluation functions of   *)
(* pacing_alert.py, pacing.py, pg_lag_alert.py, alert_functions.py,        *)
(* kpi_alert.py, impression_alert.py, goal_alert.py and main.py.           *)
(*                                                                         *)
(* The input table (a DataFrame) is a sequence of rows in physical order.  *)
(* A row is a record of its columns.  Dates are day numbers.  A float64    *)
(* cell is an exact rational or one of NaN, +inf, -inf: arithmetic is      *)
(* exact (no binary rounding error), round() is modelled as written.       *)
(***************************************************************************)
EXTENDS Integers, Sequences, FiniteSets, TLC

VARIABLES df, fn, target, threshold, out

vars == <<df, fn, target, threshold, out>>

(***************************************************************************)
(* float64 cells                                                           *)
(***************************************************************************)
RECURSIVE Gcd(_, _)
Gcd(a, b) == IF b = 0 THEN a ELSE Gcd(b, a % b)

AbsInt(x) == IF x < 0 THEN -x ELSE x

NaN == [k |-> "nan", n |-> 0, d |-> 1]

PosInf == [k |-> "inf", n |-> 1, d |-> 1]

NegInf == [k |-> "inf", n |-> -1, d |-> 1]

\* the rational n/d (d > 0) in lowest terms
Frac(n, d) ==
    LET g == Gcd(AbsInt(n), d)
    IN  [k |-> "fin", n |-> n \div g, d |-> d \div g]

Num(x) == [k |-> "fin", n |-> x, d |-> 1]

IsNaN(a) == a.k = "nan"

IsFin(a) == a.k = "fin"

Sign(a) == IF a.n > 0 THEN 1 ELSE IF a.n < 0 THEN -1 ELSE 0

FNeg(a) == IF a.k = "nan" THEN NaN ELSE [a EXCEPT !.n = -a.n]

FAbs(a) == IF a.k = "nan" THEN NaN ELSE [a EXCEPT !.n = AbsInt(a.n)]

FAdd(a, b) ==
    IF a.k = "nan" \/ b.k = "nan" THEN NaN
    ELSE IF a.k = "inf" /\ b.k = "inf" THEN (IF a.n = b.n THEN a ELSE NaN)
    ELSE IF a.k = "inf" THEN a
    ELSE IF b.k = "inf" THEN b
    ELSE Frac(a.n * b.d + b.n * a.d, a.d * b.d)

FSub(a, b) == FAdd(a, FNeg(b))

FMul(a, b) ==
    IF a.k = "nan" \/ b.k = "nan" THEN NaN
    ELSE IF a.k = "inf" \/ b.k = "inf"
         THEN (IF Sign(a) * Sign(b) = 0 THEN NaN
               ELSE IF Sign(a) * Sign(b) > 0 THEN PosInf ELSE NegInf)
    ELSE Frac(a.n * b.n, a.d * b.d)

\* numpy true division: x/0 is +-inf, 0/0 is NaN, nothing raises
FDiv(a, b) ==
    IF a.k = "nan" \/ b.k = "nan" THEN NaN
    ELSE IF a.k = "inf" /\ b.k = "inf" THEN NaN
    ELSE IF a.k = "inf"
         THEN (IF Sign(a) * (IF Sign(b) < 0 THEN -1 ELSE 1) > 0 THEN PosInf ELSE NegInf)
    ELSE IF b.k = "inf" THEN Num(0)
    ELSE IF b.n = 0
         THEN (IF a.n = 0 THEN NaN ELSE IF a.n > 0 THEN PosInf ELSE NegInf)
    ELSE IF b.n > 0 THEN Frac(a.n * b.d, a.d * b.n)
    ELSE Frac(-(a.n * b.d), a.d * (-b.n))

\* comparisons: every comparison with NaN is False
FLt(a, b) ==
    IF a.k = "nan" \/ b.k = "nan" THEN FALSE
    ELSE IF a.k = "inf" THEN (a.n < 0 /\ ~(b.k = "inf" /\ b.n < 0))
    ELSE IF b.k = "inf" THEN b.n > 0
    ELSE a.n * b.d < b.n * a.d

FGt(a, b) == FLt(b, a)

FEq(a, b) == a.k # "nan" /\ b.k # "nan" /\ a = b

FLe(a, b) == FLt(a, b) \/ FEq(a, b)

FGe(a, b) == FLe(b, a)

FMin(a, b) == IF FLt(b, a) THEN b ELSE a

FillNa(a, v) == IF IsNaN(a) THEN v ELSE a

\* Series.round(decimals): NaN and inf stay; the finite n/d goes to the
\* nearest multiple of 1/100 (half to even), computed digit by digit
RoundTo(a, scale) ==
    IF a.k # "fin" THEN a
    ELSE LET m  == AbsInt(a.n)
             q0 == m \div a.d
             r0 == m % a.d
             q1 == (r0 * scale) \div a.d
             r1 == (r0 * scale) % a.d
             h  == q0 * scale + q1
             up == IF 2 * r1 > a.d THEN 1
                   ELSE IF 2 * r1 = a.d /\ h % 2 = 1 THEN 1 ELSE 0
             v  == h + up
         IN  Frac((IF a.n < 0 THEN -v ELSE v), scale)

Round2(a) == RoundTo(a, 100)

(***************************************************************************)
(* DataFrame helpers                                                       *)
(***************************************************************************)
Max(a, b) == IF a > b THEN a ELSE b

Min(a, b) == IF a < b THEN a ELSE b

\* Series.clip(lower, upper): the lower bound is applied first
Clip(x, lo, hi) == Min(Max(x, lo), hi)

\* the order of sort_values(by): by = "io_date" is [entity, Date], by = "date"
\* is Date alone
KeyLe(a, b, by) ==
    IF by = "date" THEN a.Date <= b.Date
    ELSE a.io < b.io \/ (a.io = b.io /\ a.Date <= b.Date)

RECURSIVE InsertSorted(_, _, _)
InsertSorted(s, r, by) ==
    IF s = <<>> THEN <<r>>
    ELSE IF KeyLe(s[Len(s)], r, by) THEN Append(s, r)
    ELSE Append(InsertSorted(SubSeq(s, 1, Len(s) - 1), r, by), s[Len(s)])

\* df.sort_values(by=...); rows with equal keys keep their order
RECURSIVE SortBy(_, _)
SortBy(s, by) ==
    IF s = <<>> THEN <<>>
    ELSE InsertSorted(SortBy(SubSeq(s, 1, Len(s) - 1), by), s[Len(s)], by)

SortValues(s) == SortBy(s, "io_date")

\* the value a function returns: a DataFrame (its rows) or a message string
DataFrame(rows) == [kind |-> "DataFrame", rows |-> rows]

Message(text) == [kind |-> "str", rows |-> <<>>, text |-> text]

\* sum of column col over the rows j <= i of s that are in mask and in
\* the group (entity) g
RECURSIVE GroupSumTo(_, _, _, _, _)
GroupSumTo(s, i, g, col, mask) ==
    IF i = 0 THEN 0
    ELSE (IF s[i].io = g /\ i \in mask THEN s[i][col] ELSE 0)
         + GroupSumTo(s, i - 1, g, col, mask)

\* mutant: the running sum is taken over the whole table
GroupCumSum_WholeTable(s, i, col) ==
    GroupSumTo([j \in DOMAIN s |-> [s[j] EXCEPT !.io = 0]], i, 0, col, DOMAIN s)

\* df.groupby(entity)[col].cumsum() at position i
GroupCumSum(s, i, col) == GroupSumTo(s, i, s[i].io, col, DOMAIN s)

\* position of the previous row of i's group, 0 when i is the group's first
RECURSIVE PrevInGroup(_, _, _)
PrevInGroup(s, i, j) ==
    IF j = 0 THEN 0
    ELSE IF s[j].io = s[i].io THEN j
    ELSE PrevInGroup(s, i, j - 1)

\* df.groupby(entity)[col].shift(1) at position i of a float column: NaN on
\* a group's first row
GroupShift(s, i, col) ==
    LET j == PrevInGroup(s, i, i - 1)
    IN  IF j = 0 THEN NaN ELSE s[j][col]

\* the same of an integer column, which the shift turns into floats
GroupShiftInt(s, i, col) ==
    LET j == PrevInGroup(s, i, i - 1)
    IN  IF j = 0 THEN NaN ELSE Num(s[j][col])

\* the rows of s, in order, whose position is in keep
RECURSIVE Filter(_, _, _)
Filter(s, keep, i) ==
    IF i > Len(s) THEN <<>>
    ELSE (IF i \in keep THEN <<s[i]>> ELSE <<>>) \o Filter(s, keep, i + 1)

\* (cur - prev) / prev, unguarded
Change(cur, prev) == FDiv(FSub(cur, prev), prev)

(***************************************************************************)
(* pacing_alert.py                                                         *)
(***************************************************************************)
\* IO_Pacing.str.lower().str.contains('ahead')
ContainsAhead(p) == p \in {"Ahead", "ahead"}

\* IO_Pacing.str.lower().str.contains('asap')
ContainsAsap(p) == p \in {"ASAP", "asap"}

\* Total_Days = (IO_End_Date - IO_Start_Date).dt.days + 1
TotalDays(r) == r.IO_End_Date - r.IO_Start_Date + 1

\* Days_Elapsed, capped: clip(lower=1, upper=Total_Days)
DaysElapsed(r) == Clip(r.Date - r.IO_Start_Date + 1, 1, TotalDays(r))

\* (Planned_Budget / Total_Days) * Days_Elapsed
EvenTarget(r) ==
    FMul(FDiv(Num(r.Planned_Budget), Num(TotalDays(r))), Num(DaysElapsed(r)))

\* mutant: a strategy that is neither ahead nor asap gets the ASAP target
IdealSpendToDate_DefaultAsap(r) ==
    IF ContainsAhead(r.IO_Pacing)
    THEN FMin(FMul(EvenTarget(r), Frac(6, 5)), Num(r.Planned_Budget))
    ELSE IF r.IO_Pacing = "Even" THEN EvenTarget(r)
    ELSE Num(r.Planned_Budget)

\* mutant: the AHEAD target without its cap at the budget
IdealSpendToDate_NoCap(r) ==
    IF ContainsAhead(r.IO_Pacing) THEN FMul(EvenTarget(r), Frac(6, 5))
    ELSE IF ContainsAsap(r.IO_Pacing) THEN Num(r.Planned_Budget)
    ELSE EvenTarget(r)

\* np.select([ahead, asap], [(even * 1.2).clip(upper=budget), budget], even)
IdealSpendToDate(r) ==
    IF ContainsAhead(r.IO_Pacing)
    THEN FMin(FMul(EvenTarget(r), Frac(6, 5)), Num(r.Planned_Budget))
    ELSE IF ContainsAsap(r.IO_Pacing) THEN Num(r.Planned_Budget)
    ELSE EvenTarget(r)

\* ((cum - safe_ideal) / safe_ideal * 100).fillna(0).round(2), safe_ideal
\* being the ideal with 0 replaced by NaN
PacingDeviation(cum, ideal) ==
    LET safe == IF FEq(ideal, Num(0)) THEN NaN ELSE ideal
    IN  Round2(FillNa(FMul(FDiv(FSub(Num(cum), safe), safe), Num(100)), Num(0)))

NoMagnitude == [k |-> "none", n |-> 0, d |-> 1]

\* mutant: the thresholds include a deviation of exactly 20
PacingStatus_Inclusive(pacing, dev) ==
    LET label == IF ContainsAsap(pacing) /\ FLe(dev, Num(-20))
                 THEN "Underspending (ASAP)"
                 ELSE IF FGe(dev, Num(20)) THEN "Overspending"
                 ELSE IF FLe(dev, Num(-20)) THEN "Underspending"
                 ELSE "On Track"
    IN  [label |-> label,
         by    |-> IF label = "On Track" THEN NoMagnitude ELSE FAbs(dev)]

\* mutant: the ASAP condition is tried after the general ones
PacingStatus_AsapLast(pacing, dev) ==
    LET label == IF FGt(dev, Num(20)) THEN "Overspending"
                 ELSE IF FLt(dev, Num(-20)) THEN "Underspending"
                 ELSE IF ContainsAsap(pacing) /\ FLt(dev, Num(-20))
                 THEN "Underspending (ASAP)"
                 ELSE "On Track"
    IN  [label |-> label,
         by    |-> IF label = "On Track" THEN NoMagnitude ELSE FAbs(dev)]

\* np.select(conditions_status, choices_status, "On Track"), then the
\* " by <abs deviation>%" suffix on the rows that are not On Track
PacingStatus(pacing, dev) ==
    LET label == IF ContainsAsap(pacing) /\ FLt(dev, Num(-20))
                 THEN "Underspending (ASAP)"
                 ELSE IF FGt(dev, Num(20)) THEN "Overspending"
                 ELSE IF FLt(dev, Num(-20)) THEN "Underspending"
                 ELSE "On Track"
    IN  [label |-> label,
         by    |-> IF label = "On Track" THEN NoMagnitude ELSE FAbs(dev)]

PacingRow(s, i) ==
    LET r     == s[i]
        cum   == GroupCumSum(s, i, "Spends")
        ideal == IdealSpendToDate(r)
        dev   == PacingDeviation(cum, ideal)
    IN  [r                   |-> r,
         Total_Days          |-> TotalDays(r),
         Days_Elapsed        |-> DaysElapsed(r),
         Cumulative_Spend    |-> cum,
         Ideal_Spend_to_Date |-> ideal,
         Deviation_Pct       |-> dev,
         Pacing_Status       |-> PacingStatus(r.IO_Pacing, dev)]

calculate_pacing_alerts(d) ==
    LET s == SortValues(d)
    IN  DataFrame([i \in DOMAIN s |-> PacingRow(s, i)])

(***************************************************************************)
(* pacing.py                                                               *)
(***************************************************************************)
\* mutant: the current day is not counted
DaysPassed_Exclusive(r, date) == Min(Max(date - r.IO_Start_Date, 0), TotalDays(r))

\* Days_Passed: clip(lower=0), then the row-wise min with the flight days
DaysPassed(r, date) == Min(Max(date - r.IO_Start_Date + 1, 0), TotalDays(r))

\* daily_run_rate * Days_Passed
IdealFtdPacing(r) ==
    FMul(FDiv(Num(r.Planned_Budget), Num(TotalDays(r))), Num(DaysPassed(r, r.Date)))

\* np.where(base > 0, (cur - base) / base * 100, 0.0)
SafeDeviation(cur, base) ==
    IF FGt(base, Num(0))
    THEN FMul(FDiv(FSub(cur, base), base), Num(100))
    ELSE Num(0)

\* the positions of s, in order, whose row satisfies Date = date
RECURSIVE RowsOn(_, _, _)
RowsOn(s, date, i) ==
    IF i > Len(s) THEN <<>>
    ELSE (IF s[i].Date = date THEN <<i>> ELSE <<>>) \o RowsOn(s, date, i + 1)

\* pd.merge(today, yesterday, on=entity, how='left') for one today row t:
\* one pair per matching yesterday row, or one pair with NaN when none
RECURSIVE MergeLeft(_, _, _, _)
MergeLeft(s, t, ys, k) ==
    IF k > Len(ys)
    THEN <<>>
    ELSE (IF s[ys[k]].io = s[t].io THEN <<Num(s[ys[k]].Spends)>> ELSE <<>>)
         \o MergeLeft(s, t, ys, k + 1)

MetricsRow(s, t, yspend) ==
    LET r      == s[t]
        actual == GroupCumSum(s, t, "Spends")
        ideal  == IdealFtdPacing(r)
        y      == FillNa(yspend, Num(0))
    IN  [r               |-> r,
         Actual_FTD      |-> actual,
         Ideal_FTD       |-> ideal,
         Deviation_Pct   |-> SafeDeviation(Num(actual), ideal),
         Yesterday_Spend |-> y,
         Today_Spend     |-> r.Spends,
         DoD_Deviation   |-> SafeDeviation(Num(r.Spends), y)]

RECURSIVE MetricsRows(_, _, _, _)
MetricsRows(s, ts, ys, k) ==
    IF k > Len(ts) THEN <<>>
    ELSE LET m  == MergeLeft(s, ts[k], ys, 1)
             mm == IF m = <<>> THEN <<NaN>> ELSE m
         IN  [j \in DOMAIN mm |-> MetricsRow(s, ts[k], mm[j])]
             \o MetricsRows(s, ts, ys, k + 1)

calculate_io_metrics(d, t) ==
    LET s == SortValues(d)
    IN  DataFrame(MetricsRows(s, RowsOn(s, t, 1), RowsOn(s, t - 1, 1), 1))

\* the same computation on the line-item columns (Line_Item_Name, LI_Spends,
\* IO_Planned_Budget, Line_Item_Start_Date, Line_Item_End_Date)
calculate_li_metrics(d, t) ==
    LET s == SortValues(d)
    IN  DataFrame(MetricsRows(s, RowsOn(s, t, 1), RowsOn(s, t - 1, 1), 1))

(***************************************************************************)
(* pg_lag_alert.py                                                         *)
(***************************************************************************)
\* mutant: the rows dated after the target date are kept too
History_All(d, t) == d

\* mutant: only the rows dated the target date are kept
RECURSIVE History_OnDate(_, _)
History_OnDate(d, t) ==
    IF d = <<>> THEN <<>>
    ELSE History_OnDate(SubSeq(d, 1, Len(d) - 1), t)
         \o (IF d[Len(d)].Date = t THEN <<d[Len(d)]>> ELSE <<>>)

\* df[df['Date'] <= target_date]
RECURSIVE History(_, _)
History(d, t) ==
    IF d = <<>> THEN <<>>
    ELSE History(SubSeq(d, 1, Len(d) - 1), t)
         \o (IF d[Len(d)].Date <= t THEN <<d[Len(d)]>> ELSE <<>>)

\* sort_values('Date').groupby(entity).tail(1): each entity's last row
RECURSIVE TailOne(_, _)
TailOne(s, i) ==
    IF i > Len(s) THEN <<>>
    ELSE (IF \E j \in (i + 1)..Len(s) : s[j].io = s[i].io THEN <<>> ELSE <<s[i]>>)
         \o TailOne(s, i + 1)

\* history_df.groupby(entity)['Impressions'].sum() of entity g
ActualFtdImpressions(h, g) == GroupSumTo(h, Len(h), g, "Impressions", DOMAIN h)

\* (Planned_Budget / goal) * 1000, rounded to 0 decimals at IO level only
DerivedImpressionGoal(r, rounded) ==
    LET g == FMul(FDiv(Num(r.Planned_Budget), Num(r.Goal)), Num(1000))
    IN  IF rounded THEN RoundTo(g, 1) ELSE g

\* (Derived_Impression_Goal / Total_Flight_Days) * Days_Passed
IdealFtdImpressions(r, t, rounded) ==
    FMul(FDiv(DerivedImpressionGoal(r, rounded), Num(TotalDays(r))),
         Num(DaysPassed(r, t)))

\* mutant: a lag equal to the threshold is an alert too
PgLagRow_Inclusive(h, r, t, lag_threshold, rounded) ==
    LET ideal  == IdealFtdImpressions(r, t, rounded)
        actual == Num(ActualFtdImpressions(h, r.io))
        lag    == SafeDeviation(actual, ideal)
    IN  [r                       |-> r,
         Derived_Impression_Goal |-> DerivedImpressionGoal(r, rounded),
         Ideal_FTD_Impressions   |-> RoundTo(ideal, 10),
         Actual_FTD_Impressions  |-> RoundTo(actual, 10),
         Impression_Lag_Pct      |-> RoundTo(lag, 10),
         Alert_Status            |-> IF FLe(lag, lag_threshold)
                                     THEN "PG Lag Alert: Under-pacing"
                                     ELSE "Stable"]

PgLagRow(h, r, t, lag_threshold, rounded) ==
    LET ideal  == IdealFtdImpressions(r, t, rounded)
        actual == Num(ActualFtdImpressions(h, r.io))
        lag    == SafeDeviation(actual, ideal)
    IN  [r                       |-> r,
         Derived_Impression_Goal |-> DerivedImpressionGoal(r, rounded),
         Ideal_FTD_Impressions   |-> RoundTo(ideal, 10),
         Actual_FTD_Impressions  |-> RoundTo(actual, 10),
         Impression_Lag_Pct      |-> RoundTo(lag, 10),
         Alert_Status            |-> IF FLt(lag, lag_threshold)
                                     THEN "PG Lag Alert: Under-pacing"
                                     ELSE "Stable"]

PgLag(d, t, lag_threshold, rounded) ==
    LET h    == History(d, t)
        meta == TailOne(SortBy(h, "date"), 1)
    IN  DataFrame([i \in DOMAIN meta |-> PgLagRow(h, meta[i], t, lag_threshold, rounded)])

calculate_io_pg_lag(d, t, lag_threshold) == PgLag(d, t, lag_threshold, TRUE)

calculate_li_pg_lag(d, t, lag_threshold) == PgLag(d, t, lag_threshold, FALSE)

(***************************************************************************)
(* alert_functions.py: the table is taken in the caller's order; index is  *)
(* the index label of a row, its position in the caller's table            *)
(***************************************************************************)
\* mutant: the ratio without its guard on the denominator
SafeRatio_Unguarded(num, den, factor) ==
    FMul(FDiv(Num(num), Num(den)), Num(factor))

\* np.where(den > 0, num / den * factor, 0)
SafeRatio(num, den, factor) ==
    IF den > 0 THEN FMul(FDiv(Num(num), Num(den)), Num(factor)) ELSE Num(0)

SpendPacingRow(s, i) ==
    LET r     == s[i]
        ideal == FDiv(Num(r.Planned_Budget), Num(TotalDays(r)))
        prev  == GroupShiftInt(s, i, "Spends")
    IN  [index               |-> i,
         r                   |-> r,
         Ideal_Daily_Spend   |-> ideal,
         Spend_Deviation_Pct |-> Change(Num(r.Spends), ideal),
         Prev_Spend          |-> prev,
         DoD_Spend_Change    |-> Change(Num(r.Spends), prev)]

\* a row with its Alert_Description column
Described(o, text) == [row |-> o, Alert_Description |-> text]

check_spend_pacing(d) ==
    LET ms     == [i \in DOMAIN d |-> SpendPacingRow(d, i)]
        pacing == Filter(ms, {i \in DOMAIN ms :
                                FGt(FAbs(ms[i].Spend_Deviation_Pct), Frac(1, 5))}, 1)
        spike  == Filter(ms, {i \in DOMAIN ms :
                                FGt(ms[i].DoD_Spend_Change, Frac(1, 4))}, 1)
    IN  DataFrame([i \in DOMAIN pacing |->
                      Described(pacing[i], "Spend Deviation > 20% from Ideal")]
                  \o [i \in DOMAIN spike |->
                      Described(spike[i], "DoD Spend Spike > 25%")])

ImpressionAlertRow(s, i) ==
    LET prev == GroupShiftInt(s, i, "Impressions")
    IN  [index          |-> i,
         r              |-> s[i],
         Prev_Imps      |-> prev,
         DoD_Imp_Change |-> Change(Num(s[i].Impressions), prev)]

check_impression_alert(d) ==
    LET ms     == [i \in DOMAIN d |-> ImpressionAlertRow(d, i)]
        alerts == Filter(ms, {i \in DOMAIN ms :
                                FGt(FAbs(ms[i].DoD_Imp_Change), Frac(1, 5))}, 1)
    IN  DataFrame([i \in DOMAIN alerts |->
                      Described(alerts[i], "Impression DoD Deviation > 20%")])

\* CPM, CPC and VTR, each 0 on a zero denominator
KpiRow(r) ==
    [io  |-> r.io, r |-> r,
     CPM |-> SafeRatio(r.Spends, r.Impressions, 1000),
     CPC |-> SafeRatio(r.Spends, r.Clicks, 1),
     VTR |-> SafeRatio(r.Views, r.Impressions, 1)]

\* the alerts of one metric: the rows whose change against the previous row
\* of the entity is above 20% in absolute value
KpiMetricAlerts(ks, metric) ==
    LET change == [i \in DOMAIN ks |-> Change(ks[i][metric], GroupShift(ks, i, metric))]
        keep   == {i \in DOMAIN ks : FGt(FAbs(change[i]), Frac(1, 5))}
        rows   == [i \in DOMAIN ks |->
                      [index |-> i, row |-> ks[i], metric |-> metric,
                       Alert_Description |-> "Spike > 20%",
                       Prev |-> GroupShift(ks, i, metric),
                       Metric_Value |-> ks[i][metric],
                       Change_Pct |-> change[i]]]
    IN  Filter(rows, keep, 1)

check_kpi_spikes(d) ==
    LET ks == [i \in DOMAIN d |-> KpiRow(d[i])]
    IN  DataFrame(KpiMetricAlerts(ks, "CPM") \o KpiMetricAlerts(ks, "CPC")
                  \o KpiMetricAlerts(ks, "VTR"))

ImpressionLagRow(s, i) ==
    LET r        == s[i]
        goal     == FMul(FDiv(Num(r.Planned_Budget), Num(r.Goal)), Num(1000))
        day      == r.Date - r.IO_Start_Date + 1
        expected == FMul(FDiv(goal, Num(TotalDays(r))), Num(day))
        actual   == Num(GroupCumSum(s, i, "Impressions"))
    IN  [r                  |-> r,
         Est_Total_Imp_Goal |-> goal,
         Expected_Cum_Imps  |-> expected,
         Actual_Cum_Imps    |-> actual,
         Impression_Lag_Pct |-> Change(actual, expected)]

check_impression_lag(d) ==
    LET ms     == [i \in DOMAIN d |-> ImpressionLagRow(d, i)]
        alerts == Filter(ms, {i \in DOMAIN ms :
                                FLt(ms[i].Impression_Lag_Pct, Frac(-1, 10))}, 1)
    IN  DataFrame([i \in DOMAIN alerts |->
                      Described(alerts[i], "Impression Lag > 10%")])

(***************************************************************************)
(* kpi_alert.py                                                            *)
(***************************************************************************)
\* the row with its Daily_Achieved_CPM
DailyCpmRow(r) ==
    [io |-> r.io, r |-> r,
     Daily_Achieved_CPM |-> SafeRatio(r.Spends, r.Impressions, 1000)]

\* flight_mask: the positions of the rows with Date >= IO_Start_Date
FlightMask(s) == {i \in DOMAIN s : s[i].Date >= s[i].IO_Start_Date}

\* df[flight_mask].groupby(entity)[col].cumsum(): NaN outside the mask
FtdCumSum(s, i, col) ==
    IF i \in FlightMask(s)
    THEN Num(GroupSumTo(s, i, s[i].io, col, FlightMask(s)))
    ELSE NaN

\* np.where(FTD_Impressions > 0, FTD_Spends / FTD_Impressions * 1000, 0.0)
FtdAchievedCpm(spends, imps) ==
    IF FGt(imps, Num(0)) THEN FMul(FDiv(spends, imps), Num(1000)) ELSE Num(0)

\* mutant: 'Alert' on any change above 20 in absolute value
CpmStatus_AnyDirection(dod, ftd, goal) ==
    IF FGt(FAbs(dod), Num(20)) THEN "Alert" ELSE "OK"

\* 'Alert' when the DoD change is above 20 and the FTD CPM under the goal
CpmStatus(dod, ftd, goal) ==
    IF FGt(dod, Num(20)) /\ FLt(ftd, goal) THEN "Alert" ELSE "OK"

CpmRow(s, cs, i) ==
    LET prev == GroupShift(cs, i, "Daily_Achieved_CPM")
        dod  == SafeDeviation(cs[i].Daily_Achieved_CPM, prev)
        ftd  == FtdAchievedCpm(FtdCumSum(s, i, "Spends"),
                               FtdCumSum(s, i, "Impressions"))
    IN  [r                  |-> s[i],
         Daily_Achieved_CPM |-> Round2(cs[i].Daily_Achieved_CPM),
         DoD_CPM_Change_Pct |-> Round2(dod),
         FTD_Goal_CPM       |-> Num(s[i].Goal),
         FTD_Achieved_CPM   |-> Round2(ftd),
         Status             |-> CpmStatus(dod, ftd, Num(s[i].Goal))]

analyze_cpm_performance(d, t) ==
    LET s      == SortValues(d)
        cs     == [i \in DOMAIN s |-> DailyCpmRow(s[i])]
        report == RowsOn(s, t, 1)
    IN  IF report = <<>> THEN Message("No data found for date")
        ELSE DataFrame([k \in DOMAIN report |-> CpmRow(s, cs, report[k])])

(***************************************************************************)
(* impression_alert.py                                                     *)
(***************************************************************************)
\* number of rows j <= i of s in the group (entity) g
RECURSIVE GroupCountTo(_, _, _)
GroupCountTo(s, i, g) ==
    IF i = 0 THEN 0
    ELSE (IF s[i].io = g THEN 1 ELSE 0) + GroupCountTo(s, i - 1, g)

\* groupby(entity)['Impressions'].expanding().mean()
ExpandingMean(s, i) ==
    Frac(GroupCumSum(s, i, "Impressions"), GroupCountTo(s, i, s[i].io))

\* get_status(row)
get_status(dev) ==
    IF IsNaN(dev) THEN [label |-> "On Track", by |-> NoMagnitude]
    ELSE IF FGt(dev, Num(20)) THEN [label |-> "Overpacing", by |-> Round2(dev)]
    ELSE IF FLt(dev, Num(-20)) THEN [label |-> "Underpacing", by |-> Round2(FAbs(dev))]
    ELSE [label |-> "On Track", by |-> NoMagnitude]

ImpressionRow(s, i) ==
    LET prev == GroupShiftInt(s, i, "Impressions")
        dev  == FMul(Change(Num(s[i].Impressions), prev), Num(100))
    IN  [r                             |-> s[i],
         Impressions                   |-> s[i].Impressions,
         Average_Impressions_Till_Date |-> RoundTo(ExpandingMean(s, i), 1),
         Prev_Day_Impressions          |-> prev,
         Deviation_Pct                 |-> Round2(dev),
         Status                        |-> get_status(dev)]

generate_impression_alert(d) ==
    LET s == SortValues(d)
    IN  DataFrame([i \in DOMAIN s |-> ImpressionRow(s, i)])

(***************************************************************************)
(* goal_alert.py                                                           *)
(***************************************************************************)
\* the group keys [Line_Item, LI_CPM_Goal, LI_CTR_Goal] of the rows of a day
GroupKeys(rows) == {<<r.io, r.Goal, r.CTR_Goal>> : r \in rows}

KeyLess(a, b) ==
    \/ a[1] < b[1]
    \/ a[1] = b[1] /\ a[2] < b[2]
    \/ a[1] = b[1] /\ a[2] = b[2] /\ a[3] < b[3]

\* the keys in the order groupby() gives them: ascending
RECURSIVE SortedKeys(_)
SortedKeys(ks) ==
    IF ks = {} THEN <<>>
    ELSE LET k == CHOOSE x \in ks : \A y \in ks \ {x} : KeyLess(x, y)
         IN  <<k>> \o SortedKeys(ks \ {k})

\* sum of column col over the rows of s with group key k
RECURSIVE KeySum(_, _, _, _)
KeySum(s, i, k, col) ==
    IF i = 0 THEN 0
    ELSE (IF <<s[i].io, s[i].Goal, s[i].CTR_Goal>> = k THEN s[i][col] ELSE 0)
         + KeySum(s, i - 1, k, col)

\* agg_df: one row per group with its metrics and goal deviations, unrounded
LiDailyRow(daily, k) ==
    LET revenue == KeySum(daily, Len(daily), k, "Spends")
        imps    == KeySum(daily, Len(daily), k, "Impressions")
        clicks  == KeySum(daily, Len(daily), k, "Clicks")
        views   == KeySum(daily, Len(daily), k, "Views")
        cpm     == SafeRatio(revenue, imps, 1000)
        ctr     == SafeRatio(clicks, imps, 100)
        vtr     == SafeRatio(views, imps, 100)
    IN  [Line_Item |-> k[1], Revenue |-> revenue, Impressions |-> imps,
         Clicks |-> clicks, Complete_Views |-> views,
         LI_CPM_Goal   |-> k[2],
         Achieved_CPM  |-> Round2(cpm),
         CPM_Deviation |-> Round2(SafeDeviation(cpm, Num(k[2]))),
         LI_CTR_Goal   |-> k[3],
         Achieved_CTR  |-> Round2(ctr),
         CTR_Deviation |-> Round2(SafeDeviation(ctr, Num(k[3]))),
         Achieved_VTR  |-> Round2(vtr)]

\* agg_df after step 6, before the final column selection
LiDailyAgg(d, t) ==
    LET daily == Filter(d, {i \in DOMAIN d : d[i].Date = t}, 1)
        keys  == SortedKeys(GroupKeys({daily[i] : i \in DOMAIN daily}))
    IN  [j \in DOMAIN keys |-> LiDailyRow(daily, keys[j])]

\* agg_df[final_cols]
FinalCols(a) ==
    [LI_CPM_Goal |-> a.LI_CPM_Goal, Achieved_CPM |-> a.Achieved_CPM,
     CPM_Deviation |-> a.CPM_Deviation, LI_CTR_Goal |-> a.LI_CTR_Goal,
     Achieved_CTR |-> a.Achieved_CTR, CTR_Deviation |-> a.CTR_Deviation]

calculate_li_daily_metrics(d, t) ==
    LET agg == LiDailyAgg(d, t)
    IN  DataFrame([j \in DOMAIN agg |-> FinalCols(agg[j])])

(***************************************************************************)
(* main.py: LI_ID is the entity, spend / impressions / total_budget /       *)
(* io_goal_cpm are the Spends / Impressions / Planned_Budget / Goal columns *)
(***************************************************************************)
Ok == [label |-> "OK", by |-> NoMagnitude]

Alert(label) == [label |-> label, by |-> NoMagnitude]

\* f"{change:.0%}": the change as a percentage without decimals
AlertPct(label, change) ==
    [label |-> label, by |-> RoundTo(FMul(change, Num(100)), 1)]

\* curr_cpm of check_kpi and check_action
CurrCpm(row) == SafeRatio(row.spend, row.impressions, 1000)

check_spend(row) ==
    IF row.flight_days = 0 THEN Ok
    ELSE LET ideal == FDiv(Num(row.total_budget), Num(row.flight_days))
         IN  IF /\ FGt(ideal, Num(0))
                /\ FGt(FDiv(FAbs(FSub(Num(row.spend), ideal)), ideal), Frac(1, 5))
             THEN Alert("Pacing Deviation > 20%")
             ELSE IF /\ FGt(row.prev_spend, Num(0))
                     /\ FGt(Change(Num(row.spend), row.prev_spend), Frac(1, 4))
             THEN Alert("Spend Spike > 25%")
             ELSE Ok

check_impr(row) ==
    IF /\ FGt(row.prev_impressions, Num(0))
       /\ FGt(FAbs(Change(Num(row.impressions), row.prev_impressions)), Frac(1, 5))
    THEN AlertPct("Impression Deviation", Change(Num(row.impressions), row.prev_impressions))
    ELSE Ok

check_kpi(row) ==
    IF /\ FGt(row.prev_cpm, Num(0))
       /\ FGt(FAbs(Change(CurrCpm(row), row.prev_cpm)), Frac(1, 5))
    THEN AlertPct("CPM Spike", Change(CurrCpm(row), row.prev_cpm))
    ELSE Ok

\* mutant: a CPM exactly 15% over the goal is flagged too
check_action_Inclusive(row) ==
    IF /\ row.io_goal_cpm > 0
       /\ FGe(Change(CurrCpm(row), Num(row.io_goal_cpm)), Frac(3, 20))
    THEN Alert("High CPM - Check URL")
    ELSE Ok

check_action(row) ==
    IF /\ row.io_goal_cpm > 0
       /\ FGt(Change(CurrCpm(row), Num(row.io_goal_cpm)), Frac(3, 20))
    THEN Alert("High CPM - Check URL")
    ELSE Ok

check_deal(row) ==
    IF row.flight_days = 0 \/ row.io_goal_cpm = 0 THEN Ok
    ELSE LET pct_time == FDiv(Num(row.days_elapsed), Num(row.flight_days))
             exp_impr == FMul(FDiv(Num(row.total_budget),
                                   FDiv(Num(row.io_goal_cpm), Num(1000))),
                              pct_time)
         IN  IF FLt(Num(row.impressions), FMul(exp_impr, Frac(4, 5)))
             THEN Alert("Major Impression Lag")
             ELSE Ok

\* the row of the sorted table with prev_spend, prev_impressions, prev_cpm
ProcessedRow(s, i) ==
    LET ps == GroupShiftInt(s, i, "Spends")
        pi == GroupShiftInt(s, i, "Impressions")
    IN  [r |-> s[i], IO_ID |-> s[i].IO_ID,
         spend |-> s[i].Spends, impressions |-> s[i].Impressions,
         total_budget |-> s[i].Planned_Budget, flight_days |-> s[i].flight_days,
         io_goal_cpm |-> s[i].Goal, days_elapsed |-> s[i].days_elapsed,
         prev_spend |-> ps, prev_impressions |-> pi,
         prev_cpm |-> FMul(FDiv(ps, pi), Num(1000))]

WithAlerts(row) ==
    [row |-> row,
     Spend_Alert      |-> check_spend(row),
     Impression_Alert |-> check_impr(row),
     KPI_Alert        |-> check_kpi(row),
     Placement_Alert  |-> check_action(row),
     Deal_Health      |-> check_deal(row)]

get_processed_data(d) ==
    LET s == SortValues(d)
    IN  DataFrame([i \in DOMAIN s |-> WithAlerts(ProcessedRow(s, i))])

(***************************************************************************)
(* The program as a state machine: the caller loads a table row by row,    *)
(* then calls evaluation functions on it.  fn names the last function      *)
(* called, target and threshold its arguments, out the value it returned.  *)
(***************************************************************************)
MaxRows == 2

NoDate == 0

NoThreshold == Num(0)

\* a row of the input table: the daily metrics and the entity's attributes,
\* which the CSV repeats on every row
MkRow(io, date, m, a) ==
    [io |-> io, IO_ID |-> 1, Date |-> date,
     Spends |-> m.Spends, Impressions |-> m.Impressions,
     Clicks |-> m.Clicks, Views |-> m.Views,
     Planned_Budget |-> a.Planned_Budget,
     IO_Start_Date |-> a.IO_Start_Date, IO_End_Date |-> a.IO_End_Date,
     IO_Pacing |-> a.IO_Pacing, Goal |-> a.Goal, CTR_Goal |-> a.CTR_Goal,
     flight_days |-> a.flight_days,
     days_elapsed |-> Max(date - a.IO_Start_Date + 1, 0)]

\* the attribute columns of a row
AttrsOf(r) ==
    [Planned_Budget |-> r.Planned_Budget,
     IO_Start_Date |-> r.IO_Start_Date, IO_End_Date |-> r.IO_End_Date,
     IO_Pacing |-> r.IO_Pacing, Goal |-> r.Goal, CTR_Goal |-> r.CTR_Goal,
     flight_days |-> r.flight_days]

Init ==
    /\ df = <<>>
    /\ fn = "none"
    /\ target = NoDate
    /\ threshold = NoThreshold
    /\ out = DataFrame(<<>>)

\* the caller appends row r to the table it is building, before any call
LoadRow(r) ==
    /\ fn = "none"
    /\ Len(df) < MaxRows
    /\ df' = Append(df, r)
    /\ UNCHANGED <<fn, target, threshold, out>>

\* one run of a script: a single call on the loaded table
Call(name, t, th, result) ==
    /\ fn = "none"
    /\ df # <<>>
    /\ fn' = name
    /\ target' = t
    /\ threshold' = th
    /\ out' = result
    /\ UNCHANGED df

\* the dates a caller asks about: the dates of the table
TargetDates == {df[i].Date : i \in DOMAIN df}

RunPacingAlerts ==
    Call("calculate_pacing_alerts", NoDate, NoThreshold, calculate_pacing_alerts(df))

RunIoMetrics ==
    \E t \in TargetDates :
        Call("calculate_io_metrics", t, NoThreshold, calculate_io_metrics(df, t))

RunLiMetrics ==
    \E t \in TargetDates :
        Call("calculate_li_metrics", t, NoThreshold, calculate_li_metrics(df, t))

\* lag_threshold=-20.0 is the default of both functions
DefaultLagThreshold == -20

RunIoPgLag ==
    \E t \in TargetDates :
        Call("calculate_io_pg_lag", t, Num(DefaultLagThreshold),
             calculate_io_pg_lag(df, t, Num(DefaultLagThreshold)))

RunLiPgLag ==
    \E t \in TargetDates :
        Call("calculate_li_pg_lag", t, Num(DefaultLagThreshold),
             calculate_li_pg_lag(df, t, Num(DefaultLagThreshold)))

(***************************************************************************)
(* Pacing: tables of one flight, spend varying                             *)
(***************************************************************************)
PacingBudgets == {0, 1000, 50000}

PacingStrategies == {"Even", "Ahead", "ASAP", "Custom"}

\* the flight runs from day 3 to day 12: 10 flight days
FlightStart == 3

FlightEnd == 12

\* before the flight, its first day, its 5th day, its last day, after it
PacingDates == {1, 3, 7, 12, 14}

PacingSpends == {300, 400, 30001}

\* the 10-day flight with every budget, and a 1-day flight (start = end)
PacingFlights ==
    {<<b, FlightEnd>> : b \in PacingBudgets} \cup {<<1000, FlightStart>>}

PacingAttrs ==
    {[Planned_Budget |-> f[1], IO_Start_Date |-> FlightStart,
      IO_End_Date |-> f[2], IO_Pacing |-> p, Goal |-> 10, CTR_Goal |-> 1,
      flight_days |-> f[2] - FlightStart + 1] :
        f \in PacingFlights, p \in PacingStrategies}

PacingMetrics(io) ==
    {[Spends |-> sp, Impressions |-> 10000, Clicks |-> 0, Views |-> 0] :
        sp \in IF io = 1 THEN PacingSpends ELSE {400}}

\* entity 1 has rows on every date, entity 2 one row in mid-flight
LoadPacingRow ==
    \E io \in {1, 2} :
        \E date \in (IF io = 1 THEN PacingDates ELSE {7}), m \in PacingMetrics(io) :
            \E a \in (IF df = <<>> THEN PacingAttrs ELSE {AttrsOf(df[1])}) :
                LoadRow(MkRow(io, date, m, a))

NextPacing ==
    \/ LoadPacingRow
    \/ RunPacingAlerts
    \/ RunIoMetrics
    \/ RunLiMetrics
    \/ RunIoPgLag
    \/ RunLiPgLag

SpecPacing == Init /\ [][NextPacing]_vars

(***************************************************************************)
(* Daily checks: tables of one campaign, the daily metrics varying         *)
(***************************************************************************)
RunSpendPacing ==
    Call("check_spend_pacing", NoDate, NoThreshold, check_spend_pacing(df))

RunImpressionAlert ==
    Call("check_impression_alert", NoDate, NoThreshold, check_impression_alert(df))

RunKpiSpikes ==
    Call("check_kpi_spikes", NoDate, NoThreshold, check_kpi_spikes(df))

RunImpressionLag ==
    Call("check_impression_lag", NoDate, NoThreshold, check_impression_lag(df))

RunAnalyzeCpm ==
    \E t \in TargetDates :
        Call("analyze_cpm_performance", t, NoThreshold, analyze_cpm_performance(df, t))

RunGenerateImpressionAlert ==
    Call("generate_impression_alert", NoDate, NoThreshold, generate_impression_alert(df))

RunLiDailyMetrics ==
    \E t \in TargetDates :
        Call("calculate_li_daily_metrics", t, NoThreshold,
             calculate_li_daily_metrics(df, t))

RunGetProcessedData ==
    Call("get_processed_data", NoDate, NoThreshold, get_processed_data(df))

\* a funded 10-day flight with a CPM goal of 110 or of 200, and a campaign
\* whose budget, goals and flight_days column are all 0
DailyAttrs ==
    {[Planned_Budget |-> 1000, IO_Start_Date |-> 1, IO_End_Date |-> 10,
      IO_Pacing |-> "Even", Goal |-> g, CTR_Goal |-> 1, flight_days |-> 10] :
        g \in {110, 200}}
    \cup {[Planned_Budget |-> 0, IO_Start_Date |-> 1, IO_End_Date |-> 10,
           IO_Pacing |-> "Even", Goal |-> 0, CTR_Goal |-> 0, flight_days |-> 0]}

Metrics(sp, im, cl, vw) ==
    [Spends |-> sp, Impressions |-> im, Clicks |-> cl, Views |-> vw]

\* a day without delivery, a base day (CPM 100, CPC 10, VTR 0.5), the base
\* day with the spend changed by +30%, +25%, +20%, -20%, a day with CPM -30%
\* and VTR -40%, and a day with spend but no impressions and no clicks
DailyMetrics ==
    {Metrics(0, 0, 0, 0), Metrics(100, 1000, 10, 500),
     Metrics(130, 1000, 10, 500), Metrics(125, 1000, 10, 500),
     Metrics(120, 1000, 10, 500), Metrics(80, 1000, 10, 500),
     Metrics(70, 1000, 10, 300), Metrics(100, 0, 0, 0)}

DailyDates == {1, 2, 4}

\* entity 1 has any day on any date, entity 2 one base day on the first date
LoadDailyRow ==
    \E io \in {1, 2} :
        \E date \in (IF io = 1 THEN DailyDates ELSE {1}),
           m \in (IF io = 1 THEN DailyMetrics ELSE {Metrics(100, 1000, 10, 500)}) :
            \E a \in (IF df = <<>> THEN DailyAttrs ELSE {AttrsOf(df[1])}) :
                LoadRow(MkRow(io, date, m, a))

NextDaily ==
    \/ LoadDailyRow
    \/ RunSpendPacing
    \/ RunImpressionAlert
    \/ RunKpiSpikes
    \/ RunImpressionLag
    \/ RunAnalyzeCpm
    \/ RunGenerateImpressionAlert
    \/ RunLiDailyMetrics
    \/ RunGetProcessedData
    \/ RunIoMetrics

SpecDaily == Init /\ [][NextDaily]_vars

(***************************************************************************)
(* Claims on the pacing engine (SpecPacing)                                *)
(***************************************************************************)
Called(name) == fn = name

OutRows == {out.rows[i] : i \in DOMAIN out.rows}

\* (cumulative spend - ideal) / ideal * 100, and 0 when the ideal is 0
ExactDeviation(cum, ideal) ==
    IF FEq(ideal, Num(0)) THEN Num(0)
    ELSE FMul(FDiv(FSub(Num(cum), ideal), ideal), Num(100))

\* the labels a deviation dv is classified into, and the magnitude carried
SpendStatusBy(o, dv) ==
    /\ o.Pacing_Status.label = "Overspending" <=> FGt(dv, Num(20))
    /\ o.Pacing_Status.label = "Underspending" <=> FLt(dv, Num(-20))
    /\ o.Pacing_Status.label = "On Track" <=> FLe(FAbs(dv), Num(20))
    /\ o.Pacing_Status.label # "On Track"
           => o.Pacing_Status.by = FAbs(Round2(dv))

\* C1 as stated: in calculate_pacing_alerts every row that is not ASAP is
\* Overspending exactly when (cumulative spend - ideal)/ideal*100 > 20,
\* Underspending exactly when it is < -20 and On Track exactly when its
\* absolute value is <= 20, the label carrying the absolute deviation.
C1_StatusByExactDeviation ==
    Called("calculate_pacing_alerts") =>
        \A o \in OutRows :
            ~ContainsAsap(o.r.IO_Pacing) =>
                SpendStatusBy(o, ExactDeviation(o.Cumulative_Spend,
                                                o.Ideal_Spend_to_Date))

\* C1 amended: the same classification holds of the deviation rounded to two
\* decimals (the Deviation_% column), whose absolute value is the magnitude;
\* budget 1000, 10 flight days, day 5, cumulative 700, EVEN give ideal 500,
\* deviation 40 and Overspending by 40.
C1_StatusByRoundedDeviation ==
    Called("calculate_pacing_alerts") =>
        \A o \in OutRows :
            /\ o.Deviation_Pct = Round2(ExactDeviation(o.Cumulative_Spend,
                                                       o.Ideal_Spend_to_Date))
            /\ ~ContainsAsap(o.r.IO_Pacing) => SpendStatusBy(o, o.Deviation_Pct)
            /\ ( /\ o.r.IO_Pacing = "Even"
                 /\ o.r.Planned_Budget = 1000
                 /\ o.Total_Days = 10
                 /\ o.Days_Elapsed = 5
                 /\ o.Cumulative_Spend = 700 )
               => /\ o.Ideal_Spend_to_Date = Num(500)
                  /\ o.Deviation_Pct = Num(40)
                  /\ o.Pacing_Status = [label |-> "Overspending", by |-> Num(40)]

\* the scenario of C1 is evaluated: 300 + 400 spent by day 5 of 10
C1_Scenario ==
    /\ Called("calculate_pacing_alerts")
    /\ \E o \in OutRows :
           /\ o.r.IO_Pacing = "Even"
           /\ o.r.Planned_Budget = 1000
           /\ o.Total_Days = 10
           /\ o.Days_Elapsed = 5
           /\ o.Cumulative_Spend = 700
           /\ o.Pacing_Status.label = "Overspending"

\* C2: with EVEN pacing and N >= 1 flight days, the ideal cumulative spend of
\* a row dated on or after the flight end (elapsed day N) is the full planned
\* budget, in calculate_pacing_alerts, calculate_io_metrics and
\* calculate_li_metrics.
C2_EvenIdealAtFlightEndIsBudget ==
    /\ Called("calculate_pacing_alerts") =>
           \A o \in OutRows :
               ( /\ o.r.IO_Pacing = "Even"
                 /\ TotalDays(o.r) >= 1
                 /\ o.r.Date >= o.r.IO_End_Date )
               => o.Ideal_Spend_to_Date = Num(o.r.Planned_Budget)
    /\ (Called("calculate_io_metrics") \/ Called("calculate_li_metrics")) =>
           \A o \in OutRows :
               ( /\ o.r.IO_Pacing = "Even"
                 /\ TotalDays(o.r) >= 1
                 /\ o.r.Date >= o.r.IO_End_Date )
               => o.Ideal_FTD = Num(o.r.Planned_Budget)

\* a row dated after the end of a funded 10-day EVEN flight is evaluated
C2_AfterFlightEnd ==
    /\ Called("calculate_io_metrics")
    /\ \E o \in OutRows :
           /\ o.r.IO_Pacing = "Even"
           /\ o.r.Date > o.r.IO_End_Date
           /\ TotalDays(o.r) = 10
           /\ o.r.Planned_Budget = 50000

\* timeProgress = elapsed days / flight days, clamped to [0, 1]
TimeProgress(o) ==
    LET tp == FDiv(Num(o.Days_Elapsed), Num(o.Total_Days))
    IN  IF FLt(tp, Num(0)) THEN Num(0)
        ELSE IF FGt(tp, Num(1)) THEN Num(1) ELSE tp

\* C3 as stated: every AHEAD row has the ideal cumulative spend
\* budget * timeProgress * (2 - timeProgress); budget 1000 at timeProgress
\* 0.5 gives 750.
C3_AheadIdealIsConcaveCurve ==
    Called("calculate_pacing_alerts") =>
        \A o \in OutRows :
            ContainsAhead(o.r.IO_Pacing) =>
                o.Ideal_Spend_to_Date =
                    FMul(FMul(Num(o.r.Planned_Budget), TimeProgress(o)),
                         FSub(Num(2), TimeProgress(o)))

\* C3 amended: every AHEAD row has the ideal cumulative spend
\* 1.2 * budget * Days_Elapsed / Total_Days capped at the budget; budget 1000
\* at day 5 of 10 gives 600.
C3_AheadIdealIs120PctOfEven ==
    Called("calculate_pacing_alerts") =>
        \A o \in OutRows :
            ContainsAhead(o.r.IO_Pacing) =>
                /\ o.Ideal_Spend_to_Date =
                       FMin(Frac(6 * o.r.Planned_Budget * o.Days_Elapsed,
                                 5 * o.Total_Days),
                            Num(o.r.Planned_Budget))
                /\ (o.r.Planned_Budget = 1000 /\ o.Total_Days = 10
                        /\ o.Days_Elapsed = 5)
                   => o.Ideal_Spend_to_Date = Num(600)

\* an AHEAD row at half of the flight, and one where the cap applies
C3_AheadMidFlight ==
    /\ Called("calculate_pacing_alerts")
    /\ \E o \in OutRows :
           /\ ContainsAhead(o.r.IO_Pacing)
           /\ o.r.Planned_Budget = 1000
           /\ o.Total_Days = 10
           /\ o.Days_Elapsed = 5
    /\ \E o \in OutRows :
           /\ ContainsAhead(o.r.IO_Pacing)
           /\ o.Days_Elapsed = 10
           /\ o.Ideal_Spend_to_Date = Num(o.r.Planned_Budget)

\* C4 as stated: an ASAP row never gets an Overspending status; the only
\* alert it can get is Underspending (ASAP), exactly when the deviation is
\* < -20.
C4_AsapNeverOverspending ==
    Called("calculate_pacing_alerts") =>
        \A o \in OutRows :
            ContainsAsap(o.r.IO_Pacing) =>
                /\ o.Pacing_Status.label # "Overspending"
                /\ o.Pacing_Status.label \in {"On Track", "Underspending (ASAP)"}
                /\ o.Pacing_Status.label = "Underspending (ASAP)"
                       <=> FLt(ExactDeviation(o.Cumulative_Spend,
                                              Num(o.r.Planned_Budget)), Num(-20))

\* C4 amended: an ASAP row is measured against the full budget; it gets
\* Underspending (ASAP) exactly when its Deviation_% (rounded to two
\* decimals) is < -20, never the plain Underspending, and it gets
\* Overspending exactly when its Deviation_% is > 20, that is only when the
\* cumulative spend exceeds the whole budget.
C4_AsapOverspendingOnlyAboveBudget ==
    Called("calculate_pacing_alerts") =>
        \A o \in OutRows :
            ContainsAsap(o.r.IO_Pacing) =>
                /\ o.Ideal_Spend_to_Date = Num(o.r.Planned_Budget)
                /\ o.Pacing_Status.label # "Underspending"
                /\ o.Pacing_Status.label = "Underspending (ASAP)"
                       <=> FLt(o.Deviation_Pct, Num(-20))
                /\ o.Pacing_Status.label = "Overspending"
                       <=> FGt(o.Deviation_Pct, Num(20))
                /\ o.Pacing_Status.label = "Overspending"
                       => o.Cumulative_Spend > o.r.Planned_Budget

\* an ASAP row that is Overspending, and one that is Underspending (ASAP)
C4_AsapOverspent ==
    /\ Called("calculate_pacing_alerts")
    /\ \E o \in OutRows :
           /\ ContainsAsap(o.r.IO_Pacing)
           /\ o.r.Planned_Budget > 0
           /\ o.Pacing_Status.label = "Overspending"
    /\ \E o \in OutRows :
           /\ ContainsAsap(o.r.IO_Pacing)
           /\ o.Pacing_Status.label = "Underspending (ASAP)"

\* (date - start).days + 1 clamped into [0, flight-day count]
ClampedElapsed(r, date) ==
    LET e == date - r.IO_Start_Date + 1
    IN  IF e < 0 THEN 0 ELSE IF e > TotalDays(r) THEN TotalDays(r) ELSE e

\* C5: the elapsed-day count behind the ideal cumulative target is
\* (date - start).days + 1 clamped into [0, flight-day count], 0 before the
\* flight start and the flight-day count from the flight end on, in
\* calculate_pacing_alerts, calculate_io_metrics, calculate_li_metrics and
\* calculate_io_pg_lag / calculate_li_pg_lag.
C5_ElapsedClampedFromZero ==
    /\ Called("calculate_pacing_alerts") =>
           \A o \in OutRows : o.Days_Elapsed = ClampedElapsed(o.r, o.r.Date)
    /\ (Called("calculate_io_metrics") \/ Called("calculate_li_metrics")) =>
           \A o \in OutRows :
               o.Ideal_FTD = Frac(o.r.Planned_Budget * ClampedElapsed(o.r, o.r.Date),
                                  TotalDays(o.r))
    /\ (Called("calculate_io_pg_lag") \/ Called("calculate_li_pg_lag")) =>
           \A o \in OutRows :
               o.Ideal_FTD_Impressions =
                   RoundTo(FDiv(FMul(o.Derived_Impression_Goal,
                                     Num(ClampedElapsed(o.r, target))),
                                Num(TotalDays(o.r))), 10)

\* the part of C5 that holds: every function but calculate_pacing_alerts
C5_ElapsedClampedElsewhere ==
    Called("calculate_pacing_alerts") \/ C5_ElapsedClampedFromZero

(***************************************************************************)
(* Claims on the daily checks (SpecDaily)                                  *)
(***************************************************************************)
IsDataFrame == out.kind = "DataFrame"

\* the table as sort_values(by=[entity, Date]) orders it
Sorted == SortValues(df)

\* the position in the sorted table of row k of a report for the date target
ReportPos(k) == RowsOn(Sorted, target, 1)[k]

\* every row of the entity dated up to date has no impressions
NoImpressionsUpTo(io, date) ==
    \A j \in DOMAIN df :
        (df[j].io = io /\ df[j].Date <= date) => df[j].Impressions = 0

\* C6: each derived ratio CPM (spend/impressions*1000), CPC (spend/clicks),
\* CTR (clicks/impressions*100) and VTR (views/impressions) is 0 whenever its
\* denominator is 0 and is never infinite or undefined, in check_kpi_spikes,
\* analyze_cpm_performance (daily and flight-to-date CPM) and
\* calculate_li_daily_metrics.
C6_RatiosZeroOnZeroDenominator ==
    /\ Called("check_kpi_spikes") =>
           \A o \in OutRows :
               /\ IsFin(o.row.CPM) /\ IsFin(o.row.CPC) /\ IsFin(o.row.VTR)
               /\ o.row.r.Impressions = 0
                      => (o.row.CPM = Num(0) /\ o.row.VTR = Num(0))
               /\ o.row.r.Clicks = 0 => o.row.CPC = Num(0)
    /\ (Called("analyze_cpm_performance") /\ IsDataFrame) =>
           \A o \in OutRows :
               /\ IsFin(o.Daily_Achieved_CPM) /\ IsFin(o.FTD_Achieved_CPM)
               /\ o.r.Impressions = 0 => o.Daily_Achieved_CPM = Num(0)
               /\ NoImpressionsUpTo(o.r.io, o.r.Date)
                      => o.FTD_Achieved_CPM = Num(0)
    /\ Called("calculate_li_daily_metrics") =>
           /\ \A o \in OutRows : IsFin(o.Achieved_CPM) /\ IsFin(o.Achieved_CTR)
           /\ LET agg == LiDailyAgg(df, target)
              IN  \A j \in DOMAIN agg :
                      /\ IsFin(agg[j].Achieved_VTR)
                      /\ out.rows[j].Achieved_CPM = agg[j].Achieved_CPM
                      /\ out.rows[j].Achieved_CTR = agg[j].Achieved_CTR
                      /\ agg[j].Impressions = 0
                             => /\ agg[j].Achieved_CPM = Num(0)
                                /\ agg[j].Achieved_CTR = Num(0)
                                /\ agg[j].Achieved_VTR = Num(0)

\* a day with spend but no impressions and no clicks is among the rows that
\* check_kpi_spikes returns
C6_SpendWithoutImpressions ==
    /\ Called("check_kpi_spikes")
    /\ \E o \in OutRows :
           /\ o.row.r.Impressions = 0
           /\ o.row.r.Clicks = 0
           /\ o.row.r.Spends > 0

\* the position before k of the previous row of k's entity in rows, 0 when
\* k is the entity's first
PrevOf(rows, k) == PrevInGroup(rows, k, k - 1)

\* C7: in every deviation computation (spend FTD and spend DoD in
\* calculate_io_metrics, CPM DoD in analyze_cpm_performance, impression DoD
\* in generate_impression_alert and check_impression_alert, spend deviation
\* and spike in check_spend_pacing, impression lag in check_impression_lag)
\* a row whose baseline is exactly 0 gets the deviation 0, never an infinite
\* or undefined value and never an alert made by a division by zero.
C7_ZeroBaselineGivesZeroDeviation ==
    /\ Called("calculate_io_metrics") =>
           \A o \in OutRows :
               /\ FEq(o.Ideal_FTD, Num(0)) => o.Deviation_Pct = Num(0)
               /\ FEq(o.Yesterday_Spend, Num(0)) => o.DoD_Deviation = Num(0)
    /\ (Called("analyze_cpm_performance") /\ IsDataFrame) =>
           \A k \in DOMAIN out.rows :
               LET j == PrevOf(Sorted, ReportPos(k))
               IN  (j # 0 /\ (Sorted[j].Spends = 0 \/ Sorted[j].Impressions = 0))
                       => /\ out.rows[k].DoD_CPM_Change_Pct = Num(0)
                          /\ out.rows[k].Status = "OK"
    /\ Called("generate_impression_alert") =>
           \A o \in OutRows :
               FEq(o.Prev_Day_Impressions, Num(0))
                   => (o.Deviation_Pct = Num(0) /\ o.Status.label = "On Track")
    /\ Called("check_impression_alert") =>
           \A o \in OutRows :
               FEq(o.row.Prev_Imps, Num(0)) => o.row.DoD_Imp_Change = Num(0)
    /\ Called("check_spend_pacing") =>
           \A o \in OutRows :
               /\ FEq(o.row.Ideal_Daily_Spend, Num(0))
                      => o.row.Spend_Deviation_Pct = Num(0)
               /\ FEq(o.row.Prev_Spend, Num(0)) => o.row.DoD_Spend_Change = Num(0)
    /\ Called("check_impression_lag") =>
           \A o \in OutRows :
               FEq(o.row.Expected_Cum_Imps, Num(0))
                   => o.row.Impression_Lag_Pct = Num(0)

\* the part of C7 that holds: calculate_io_metrics and analyze_cpm_performance
C7_GuardedDeviations ==
    (Called("calculate_io_metrics") \/ Called("analyze_cpm_performance"))
        => C7_ZeroBaselineGivesZeroDeviation

\* C8: for the first record of an entity (no prior-day record) the
\* day-over-day deviation is reported as 0 and the DoD status is the healthy
\* label, in generate_impression_alert, calculate_io_metrics,
\* analyze_cpm_performance and the check_impr / check_kpi rules of
\* get_processed_data.
C8_FirstRecordDeviationZero ==
    /\ Called("generate_impression_alert") =>
           \A k \in DOMAIN out.rows :
               PrevOf(Sorted, k) = 0
                   => /\ out.rows[k].Deviation_Pct = Num(0)
                      /\ out.rows[k].Status.label = "On Track"
    /\ Called("calculate_io_metrics") =>
           \A o \in OutRows :
               (\A j \in DOMAIN df :
                    ~(df[j].io = o.r.io /\ df[j].Date = target - 1))
                   => o.DoD_Deviation = Num(0)
    /\ (Called("analyze_cpm_performance") /\ IsDataFrame) =>
           \A k \in DOMAIN out.rows :
               PrevOf(Sorted, ReportPos(k)) = 0
                   => /\ out.rows[k].DoD_CPM_Change_Pct = Num(0)
                      /\ out.rows[k].Status = "OK"
    /\ Called("get_processed_data") =>
           \A k \in DOMAIN out.rows :
               PrevOf(Sorted, k) = 0
                   => /\ out.rows[k].Impression_Alert = Ok
                      /\ out.rows[k].KPI_Alert = Ok

\* the part of C8 that holds: every function but generate_impression_alert
C8_FirstRecordElsewhere ==
    Called("generate_impression_alert") \/ C8_FirstRecordDeviationZero

\* the spend of row c is more than 25% above the positive spend of row p
SpendSpike(c, p) == p.Spends > 0 /\ 4 * (c.Spends - p.Spends) > p.Spends

\* C9: every row whose previous-day spend is > 0 and whose day-over-day spend
\* change is > 25% is flagged: its Spend Alert from check_spend in
\* get_processed_data is not 'OK' and it is in the output of
\* check_spend_pacing (prior 100, current 130); a change of exactly 25% or
\* less against a positive previous spend never produces a spike label.
C9_SpendSpikeFlagged ==
    /\ Called("get_processed_data") =>
           \A k \in DOMAIN out.rows :
               LET j == PrevOf(Sorted, k)
               IN  IF j # 0 /\ SpendSpike(Sorted[k], Sorted[j])
                   THEN out.rows[k].Spend_Alert # Ok
                   ELSE (j # 0 /\ Sorted[j].Spends > 0)
                            => out.rows[k].Spend_Alert.label # "Spend Spike > 25%"
    /\ Called("check_spend_pacing") =>
           \A i \in DOMAIN df :
               LET j == PrevOf(df, i)
               IN  (j # 0 /\ df[j].Spends > 0) =>
                       ( SpendSpike(df[i], df[j])
                         <=> \E o \in OutRows :
                                 /\ o.row.index = i
                                 /\ o.Alert_Description = "DoD Spend Spike > 25%" )

\* the part of C9 that holds: check_spend_pacing, and check_spend on the rows
\* whose flight_days is not 0
C9_SpendSpikeFlaggedInFlight ==
    /\ Called("check_spend_pacing") => C9_SpendSpikeFlagged
    /\ Called("get_processed_data") =>
           \A k \in DOMAIN out.rows :
               LET j == PrevOf(Sorted, k)
               IN  (j # 0 /\ SpendSpike(Sorted[k], Sorted[j])
                        /\ Sorted[k].flight_days # 0)
                       => out.rows[k].Spend_Alert # Ok

\* a metric of a day: spend/impressions*1000, spend/clicks, views/impressions,
\* 0 on a zero denominator
MetricOf(r, metric) ==
    LET num == IF metric = "VTR" THEN r.Views ELSE r.Spends
        den == IF metric = "CPC" THEN r.Clicks ELSE r.Impressions
    IN  IF den = 0 THEN Num(0)
        ELSE Frac(num * (IF metric = "CPM" THEN 1000 ELSE 1), den)

\* cur is more than 20% above or below the positive previous value prev
SpikeAgainst(cur, prev) ==
    /\ FGt(prev, Num(0))
    /\ FGt(FAbs(FSub(cur, prev)), FMul(prev, Frac(1, 5)))

\* cur is more than 20% above the positive previous value prev
RiseAgainst(cur, prev) ==
    /\ FGt(prev, Num(0))
    /\ FGt(FSub(cur, prev), FMul(prev, Frac(1, 5)))

\* row i of the caller's table is in the output of check_kpi_spikes for metric
IncludedFor(i, metric) ==
    \E o \in OutRows : o.index = i /\ o.metric = metric

\* flight-to-date spend / impressions * 1000 of the entity at position i of
\* the sorted table, 0 without flight-to-date impressions
FtdCpmAt(i) ==
    LET flight == {j \in 1..i : /\ Sorted[j].io = Sorted[i].io
                                /\ Sorted[j].Date >= Sorted[j].IO_Start_Date}
        spends == GroupSumTo(Sorted, i, Sorted[i].io, "Spends", flight)
        imps   == GroupSumTo(Sorted, i, Sorted[i].io, "Impressions", flight)
    IN  IF i \notin flight \/ imps = 0 THEN Num(0) ELSE Frac(spends * 1000, imps)

\* check_kpi flags row k of get_processed_data exactly on a CPM spike
KpiAlertOnSpike(k) ==
    LET j == PrevOf(Sorted, k)
    IN  out.rows[k].KPI_Alert # Ok
            <=> /\ j # 0
                /\ SpikeAgainst(MetricOf(Sorted[k], "CPM"), MetricOf(Sorted[j], "CPM"))

\* C10 as stated: a row whose metric (CPM, CPC, VTR) has a positive previous
\* value is flagged for a spike exactly when the absolute day-over-day change
\* of the metric is > 20%, increases and decreases alike and whatever else
\* holds: check_kpi returns a non-OK label, check_kpi_spikes includes the row
\* and analyze_cpm_performance sets Status = 'Alert'.
C10_FlaggedExactlyOnSpike ==
    /\ Called("get_processed_data") =>
           \A k \in DOMAIN out.rows :
               LET j == PrevOf(Sorted, k)
               IN  (j # 0 /\ FGt(MetricOf(Sorted[j], "CPM"), Num(0)))
                       => ( out.rows[k].KPI_Alert # Ok
                            <=> SpikeAgainst(MetricOf(Sorted[k], "CPM"),
                                             MetricOf(Sorted[j], "CPM")) )
    /\ Called("check_kpi_spikes") =>
           \A i \in DOMAIN df, metric \in {"CPM", "CPC", "VTR"} :
               LET j == PrevOf(df, i)
               IN  (j # 0 /\ FGt(MetricOf(df[j], metric), Num(0)))
                       => ( IncludedFor(i, metric)
                            <=> SpikeAgainst(MetricOf(df[i], metric),
                                             MetricOf(df[j], metric)) )
    /\ (Called("analyze_cpm_performance") /\ IsDataFrame) =>
           \A k \in DOMAIN out.rows :
               LET i == ReportPos(k)
                   j == PrevOf(Sorted, i)
               IN  (j # 0 /\ FGt(MetricOf(Sorted[j], "CPM"), Num(0)))
                       => ( out.rows[k].Status = "Alert"
                            <=> SpikeAgainst(MetricOf(Sorted[i], "CPM"),
                                             MetricOf(Sorted[j], "CPM")) )

\* C10 amended: check_kpi returns a non-OK label exactly when the absolute
\* day-over-day change of the CPM against a positive previous CPM is > 20%;
\* check_kpi_spikes includes the row for a metric exactly when that holds of
\* the metric or its previous value is 0 and its current value positive (an
\* infinite change); analyze_cpm_performance sets Status = 'Alert' exactly
\* when the CPM rose by more than 20% against a positive previous CPM and the
\* flight-to-date achieved CPM is below the goal CPM.
C10_FlaggedPerFunction ==
    /\ Called("get_processed_data") =>
           \A k \in DOMAIN out.rows : KpiAlertOnSpike(k)
    /\ Called("check_kpi_spikes") =>
           \A i \in DOMAIN df, metric \in {"CPM", "CPC", "VTR"} :
               LET j   == PrevOf(df, i)
                   cur == MetricOf(df[i], metric)
               IN  IncludedFor(i, metric)
                       <=> /\ j # 0
                           /\ \/ SpikeAgainst(cur, MetricOf(df[j], metric))
                              \/ /\ MetricOf(df[j], metric) = Num(0)
                                 /\ FGt(cur, Num(0))
    /\ (Called("analyze_cpm_performance") /\ IsDataFrame) =>
           \A k \in DOMAIN out.rows :
               LET i == ReportPos(k)
                   j == PrevOf(Sorted, i)
               IN  out.rows[k].Status = "Alert"
                       <=> /\ j # 0
                           /\ RiseAgainst(MetricOf(Sorted[i], "CPM"),
                                          MetricOf(Sorted[j], "CPM"))
                           /\ FLt(FtdCpmAt(i), Num(Sorted[i].Goal))

\* analyze_cpm_performance reports a day whose CPM rose by 30%: as an Alert
\* when the flight-to-date CPM is under the goal
C10_CpmRoseUnderGoal ==
    /\ Called("analyze_cpm_performance")
    /\ IsDataFrame
    /\ \E o \in OutRows :
           /\ o.DoD_CPM_Change_Pct = Num(30)
           /\ FLt(o.FTD_Achieved_CPM, o.FTD_Goal_CPM)
           /\ o.Status = "Alert"

(***************************************************************************)
(* CPM against the goal: tables of one campaign, the goal CPM varying      *)
(***************************************************************************)
\* a campaign without a CPM goal, with the goal 10 and with the goal 100
GoalAttrs ==
    {[Planned_Budget |-> 1000, IO_Start_Date |-> 1, IO_End_Date |-> 10,
      IO_Pacing |-> "Even", Goal |-> g, CTR_Goal |-> 1, flight_days |-> 10] :
        g \in {0, 10, 100}}

\* days with the CPM 10, 12, 115 and 116, and a day with spend but no
\* impressions
GoalMetrics ==
    {Metrics(10, 1000, 10, 500), Metrics(12, 1000, 10, 500),
     Metrics(115, 1000, 10, 500), Metrics(116, 1000, 10, 500),
     Metrics(100, 0, 0, 0)}

\* entity 1 has any day on the dates 1 and 2, entity 2 one day on date 1
LoadGoalRow ==
    \E io \in {1, 2} :
        \E date \in (IF io = 1 THEN {1, 2} ELSE {1}),
           m \in (IF io = 1 THEN GoalMetrics ELSE {Metrics(12, 1000, 10, 500)}) :
            \E a \in (IF df = <<>> THEN GoalAttrs ELSE {AttrsOf(df[1])}) :
                LoadRow(MkRow(io, date, m, a))

NextGoal ==
    \/ LoadGoalRow
    \/ RunGetProcessedData
    \/ RunLiDailyMetrics

SpecGoal == Init /\ [][NextGoal]_vars

(***************************************************************************)
(* Claims on the CPM goal (SpecGoal)                                       *)
(***************************************************************************)
HighCpm == [label |-> "High CPM - Check URL", by |-> NoMagnitude]

\* the achieved CPM cpm is more than 15% above the positive goal
OverGoal(cpm, goal) ==
    goal > 0 /\ FGt(FMul(FSub(cpm, Num(goal)), Num(20)), Num(3 * goal))

\* C11: a row gets the high-CPM alert exactly when its goal CPM is > 0 and
\* (achieved CPM - goal)/goal is strictly above 15%: goal 10 with achieved
\* CPM 12 (deviation +20%, which calculate_li_daily_metrics reports as
\* CPM_Deviation% = 20) is flagged, a deviation of exactly 15% or a goal of 0
\* gives 'OK'.
C11_HighCpmAbove15Pct ==
    /\ Called("get_processed_data") =>
           \A o \in OutRows :
               LET cpm == MetricOf(o.row.r, "CPM")
               IN  /\ o.Placement_Alert \in {Ok, HighCpm}
                   /\ o.Placement_Alert = HighCpm <=> OverGoal(cpm, o.row.r.Goal)
                   /\ (o.row.r.Goal = 10 /\ cpm = Num(12))
                          => o.Placement_Alert = HighCpm
                   /\ (o.row.r.Goal = 100 /\ cpm = Num(115))
                          => o.Placement_Alert = Ok
                   /\ o.row.r.Goal = 0 => o.Placement_Alert = Ok
    /\ Called("calculate_li_daily_metrics") =>
           \A o \in OutRows :
               /\ o.LI_CPM_Goal = 0 => o.CPM_Deviation = Num(0)
               /\ (o.LI_CPM_Goal = 10 /\ o.Achieved_CPM = Num(12))
                      => o.CPM_Deviation = Num(20)

\* get_processed_data evaluates a day with CPM 12 against the goal 10 and
\* flags it, and a day exactly 15% above its goal, which it leaves 'OK'
C11_Cpm12AgainstGoal10 ==
    /\ Called("get_processed_data")
    /\ \E o \in OutRows :
           /\ o.row.r.Goal = 10
           /\ MetricOf(o.row.r, "CPM") = Num(12)
           /\ o.Placement_Alert = HighCpm

C11_CpmExactly15PctOver ==
    /\ Called("get_processed_data")
    /\ \E o \in OutRows :
           /\ o.row.r.Goal = 100
           /\ MetricOf(o.row.r, "CPM") = Num(115)
           /\ o.Placement_Alert = Ok

(***************************************************************************)
(* Impressions day over day: tables of one campaign, the impressions       *)
(* varying                                                                 *)
(***************************************************************************)
ImprAttrs ==
    [Planned_Budget |-> 1000, IO_Start_Date |-> 1, IO_End_Date |-> 10,
     IO_Pacing |-> "Even", Goal |-> 100, CTR_Goal |-> 1, flight_days |-> 10]

\* a day without impressions, a base day of 100 impressions, and days 20%
\* and 25% above and below the base day
ImprMetrics ==
    {Metrics(10, im, 10, 50) : im \in {0, 75, 80, 100, 120, 125}}

\* entity 1 has any day on the dates 1 and 2, entity 2 one base day on date 1
LoadImprRow ==
    \E io \in {1, 2} :
        \E date \in (IF io = 1 THEN {1, 2} ELSE {1}),
           m \in (IF io = 1 THEN ImprMetrics ELSE {Metrics(10, 100, 10, 50)}) :
            LoadRow(MkRow(io, date, m, ImprAttrs))

NextImpr ==
    \/ LoadImprRow
    \/ RunGenerateImpressionAlert
    \/ RunImpressionAlert
    \/ RunGetProcessedData

SpecImpr == Init /\ [][NextImpr]_vars

(***************************************************************************)
(* Claims on the impression deviation (SpecImpr)                           *)
(***************************************************************************)
\* the day-over-day deviation in percent of the impressions of row k of rows
\* against the previous row of its entity: 0 without a previous row or with
\* a previous row of 0 impressions
ImprDeviation(rows, k) ==
    LET j == PrevOf(rows, k)
    IN  IF j = 0 THEN Num(0)
        ELSE IF rows[j].Impressions = 0 THEN Num(0)
        ELSE Frac((rows[k].Impressions - rows[j].Impressions) * 100,
                  rows[j].Impressions)

\* row k of rows has a previous row with impressions, or no previous row
HasImprBaseline(rows, k) ==
    PrevOf(rows, k) = 0 \/ rows[PrevOf(rows, k)].Impressions > 0

\* the three functions flag row k of their table exactly by the deviation dv
ImprFlaggedBy(k, dv) ==
    /\ Called("generate_impression_alert") =>
           /\ out.rows[k].Status.label = "Overpacing" <=> FGt(dv, Num(20))
           /\ out.rows[k].Status.label = "Underpacing" <=> FLt(dv, Num(-20))
           /\ out.rows[k].Status.label = "On Track" <=> FLe(FAbs(dv), Num(20))
    /\ Called("get_processed_data") =>
           (out.rows[k].Impression_Alert # Ok <=> FGt(FAbs(dv), Num(20)))
    /\ Called("check_impression_alert") =>
           ((\E o \in OutRows : o.row.index = k) <=> FGt(FAbs(dv), Num(20)))

\* the table in the order in which the called function takes it
Taken == IF Called("check_impression_alert") THEN df ELSE Sorted

\* C12: a row is flagged for its impression day-over-day deviation exactly
\* when the absolute deviation against the previous record exceeds 20%:
\* generate_impression_alert gives an Overpacing label iff the deviation is
\* > 20, an Underpacing label iff it is < -20 and 'On Track' otherwise
\* (exactly +20 and -20 included); check_impr and check_impression_alert flag
\* exactly the rows with |change| > 0.20.
C12_ImpressionFlaggedAbove20Pct ==
    \A k \in DOMAIN df : ImprFlaggedBy(k, ImprDeviation(Taken, k))

\* the part of C12 that holds: the rows whose previous record has impressions
C12_FlaggedAgainstPositivePrevious ==
    \A k \in DOMAIN df :
        HasImprBaseline(Taken, k) => ImprFlaggedBy(k, ImprDeviation(Taken, k))

(***************************************************************************)
(* Impression lag: tables of one flight, the impressions and the caller's  *)
(* threshold varying                                                       *)
(***************************************************************************)
\* the thresholds a caller passes: the default -20, and -10 and -5
LagThresholds == {DefaultLagThreshold, -10, -5}

RunIoPgLagWith ==
    \E t \in TargetDates, th \in LagThresholds :
        Call("calculate_io_pg_lag", t, Num(th), calculate_io_pg_lag(df, t, Num(th)))

RunLiPgLagWith ==
    \E t \in TargetDates, th \in LagThresholds :
        Call("calculate_li_pg_lag", t, Num(th), calculate_li_pg_lag(df, t, Num(th)))

\* the 10-day flight with the goal CPM 10 and the budget 1000 (10000
\* impressions a day), the budget 0, and the goal CPM 3 (a derived goal that
\* is not a whole number)
LagAttrs ==
    {[Planned_Budget |-> b, IO_Start_Date |-> FlightStart,
      IO_End_Date |-> FlightEnd, IO_Pacing |-> "Even", Goal |-> 10,
      CTR_Goal |-> 1, flight_days |-> FlightEnd - FlightStart + 1] :
        b \in {0, 1000}}
    \cup {[Planned_Budget |-> 1000, IO_Start_Date |-> FlightStart,
           IO_End_Date |-> FlightEnd, IO_Pacing |-> "Even", Goal |-> 3,
           CTR_Goal |-> 1, flight_days |-> FlightEnd - FlightStart + 1]}

LagMetrics == {Metrics(100, im, 10, 500) : im \in {0, 7999, 8000, 9000, 10000}}

\* entity 1 has any day two days before the flight start and on the first
\* two flight days, entity 2 one full day on the first flight day
LoadLagRow ==
    \E io \in {1, 2} :
        \E date \in (IF io = 1 THEN {FlightStart - 2, FlightStart, FlightStart + 1}
                     ELSE {FlightStart}),
           m \in (IF io = 1 THEN LagMetrics ELSE {Metrics(100, 10000, 10, 500)}) :
            \E a \in (IF df = <<>> THEN LagAttrs ELSE {AttrsOf(df[1])}) :
                LoadRow(MkRow(io, date, m, a))

NextLag ==
    \/ LoadLagRow
    \/ RunIoPgLagWith
    \/ RunLiPgLagWith

SpecLag == Init /\ [][NextLag]_vars

(***************************************************************************)
(* Claims on the impression lag (SpecLag)                                  *)
(***************************************************************************)
CalledPgLag == Called("calculate_io_pg_lag") \/ Called("calculate_li_pg_lag")

\* the entities with a record on or before the target date
EntitiesUpTo(date) == {df[i].io : i \in {j \in DOMAIN df : df[j].Date <= date}}

\* sum of the impressions of the entity's records up to date
RECURSIVE ImpressionsUpTo(_, _, _)
ImpressionsUpTo(io, date, i) ==
    IF i = 0 THEN 0
    ELSE (IF df[i].io = io /\ df[i].Date <= date THEN df[i].Impressions ELSE 0)
         + ImpressionsUpTo(io, date, i - 1)

\* the ideal flight-to-date impressions of an output row: its derived
\* impression goal spread evenly over the flight days, at the target date
IdealImpressions(o) ==
    FDiv(FMul(o.Derived_Impression_Goal, Num(ClampedElapsed(o.r, target))),
         Num(TotalDays(o.r)))

\* lag% = (actual - ideal) / ideal * 100, and 0 when the ideal is 0
LagPct(o) ==
    LET ideal  == IdealImpressions(o)
        actual == Num(ImpressionsUpTo(o.r.io, target, Len(df)))
    IN  IF FEq(ideal, Num(0)) THEN Num(0)
        ELSE FDiv(FMul(FSub(actual, ideal), Num(100)), ideal)

\* C13: in calculate_io_pg_lag and calculate_li_pg_lag every entity with a
\* record on or before the target date has one row, whose Alert_Status is
\* 'PG Lag Alert: Under-pacing' exactly when lag% = (actual FTD impressions -
\* ideal FTD impressions)/ideal*100 is strictly below the caller's
\* lag_threshold and 'Stable' otherwise; when the ideal is 0 (target date
\* before the flight start, or budget 0) the lag is 0 and the status 'Stable'.
C13_LagAlertBelowThreshold ==
    CalledPgLag =>
        /\ {o.r.io : o \in OutRows} = EntitiesUpTo(target)
        /\ Len(out.rows) = Cardinality(EntitiesUpTo(target))
        /\ \A o \in OutRows :
               /\ o.Alert_Status \in {"PG Lag Alert: Under-pacing", "Stable"}
               /\ o.Alert_Status = "PG Lag Alert: Under-pacing"
                      <=> FLt(LagPct(o), threshold)
               /\ o.Impression_Lag_Pct = RoundTo(LagPct(o), 10)
               /\ (target < o.r.IO_Start_Date \/ o.r.Planned_Budget = 0)
                      => /\ o.Ideal_FTD_Impressions = Num(0)
                         /\ o.Impression_Lag_Pct = Num(0)
                         /\ o.Alert_Status = "Stable"

\* a lag of exactly -20% is evaluated against the threshold -20 and is Stable
C13_LagAtThreshold ==
    /\ CalledPgLag
    /\ threshold = Num(-20)
    /\ \E o \in OutRows :
           /\ LagPct(o) = Num(-20)
           /\ o.Alert_Status = "Stable"

\* a row before the flight start is evaluated: its ideal is 0
C13_BeforeFlightStart ==
    /\ CalledPgLag
    /\ \E o \in OutRows : target < o.r.IO_Start_Date /\ o.r.Impressions > 0

(***************************************************************************)
(* email_body.py / main.py: generate_email_body.  The HTML text is kept as *)
(* its structure: one section per IO_ID, each the list of the (alert type, *)
(* issue) table rows written into it.                                      *)
(***************************************************************************)
alert_columns ==
    <<"Spend_Alert", "Impression_Alert", "KPI_Alert", "Placement_Alert",
      "Deal_Health">>

\* mutant: mask = df[alert_columns].ne("OK").all(axis=1)
ErrorMask_All(d) ==
    {i \in DOMAIN d : \A c \in DOMAIN alert_columns : d[i][alert_columns[c]] # Ok}

\* mask = df[alert_columns].ne("OK").any(axis=1)
ErrorMask(d) ==
    {i \in DOMAIN d : \E c \in DOMAIN alert_columns : d[i][alert_columns[c]] # Ok}

\* mutant: every cell of the row is written, 'OK' or not
RECURSIVE RowIssues_WithOk(_, _)
RowIssues_WithOk(row, c) ==
    IF c > Len(alert_columns) THEN <<>>
    ELSE <<[col |-> alert_columns[c], issue |-> row[alert_columns[c]]]>>
         \o RowIssues_WithOk(row, c + 1)

\* for col in alert_columns: if row[col] != "OK": one table row
RECURSIVE RowIssues(_, _)
RowIssues(row, c) ==
    IF c > Len(alert_columns) THEN <<>>
    ELSE (IF row[alert_columns[c]] # Ok
          THEN <<[col |-> alert_columns[c], issue |-> row[alert_columns[c]]]>>
          ELSE <<>>)
         \o RowIssues(row, c + 1)

\* for _, row in group.iterrows(): the table rows of the rows of one IO_ID
RECURSIVE GroupIssues(_, _, _)
GroupIssues(errors, io_id, i) ==
    IF i > Len(errors) THEN <<>>
    ELSE (IF errors[i].row.IO_ID = io_id THEN RowIssues(errors[i], 1) ELSE <<>>)
         \o GroupIssues(errors, io_id, i + 1)

\* the group keys of df_errors.groupby('IO_ID'): ascending
RECURSIVE SortedIds(_)
SortedIds(ids) ==
    IF ids = {} THEN <<>>
    ELSE LET k == CHOOSE x \in ids : \A y \in ids : x <= y
         IN  <<k>> \o SortedIds(ids \ {k})

\* return None
None == [kind |-> "None", rows |-> <<>>]

\* the returned html_content: the heading followed by the sections
Html(sections) == [kind |-> "html", rows |-> sections]

generate_email_body(d) ==
    LET df_errors == Filter(d, ErrorMask(d), 1)
        ids == SortedIds({df_errors[i].row.IO_ID : i \in DOMAIN df_errors})
    IN  IF df_errors = <<>> THEN None
        ELSE Html([g \in DOMAIN ids |->
                      [IO_ID  |-> ids[g],
                       issues |-> GroupIssues(df_errors, ids[g], 1)]])

(***************************************************************************)
(* The report: tables of line items with their five alert cells            *)
(***************************************************************************)
RunEmailBody ==
    Call("generate_email_body", NoDate, NoThreshold, generate_email_body(df))

\* a row of the processed table: its IO_ID, its LI_ID and the alert cells
AlertRow(io_id, li, cells) ==
    [row |-> [IO_ID |-> io_id, LI_ID |-> li],
     Spend_Alert |-> cells[1], Impression_Alert |-> cells[2],
     KPI_Alert |-> cells[3], Placement_Alert |-> cells[4],
     Deal_Health |-> cells[5]]

\* a healthy row, one alert in each column, two alerts, five alerts
AlertCells ==
    {<<Ok, Ok, Ok, Ok, Ok>>,
     <<Alert("Spend Spike > 25%"), Ok, Ok, Ok, Ok>>,
     <<Ok, AlertPct("Impression Deviation", Frac(3, 10)), Ok, Ok, Ok>>,
     <<Ok, Ok, AlertPct("CPM Spike", Frac(-3, 10)), Ok, Ok>>,
     <<Ok, Ok, Ok, Alert("High CPM - Check URL"), Ok>>,
     <<Ok, Ok, Ok, Ok, Alert("Major Impression Lag")>>,
     <<Alert("Pacing Deviation > 20%"), Ok, Ok, Ok, Alert("Major Impression Lag")>>,
     <<Alert("Pacing Deviation > 20%"), AlertPct("Impression Deviation", Frac(3, 10)),
       AlertPct("CPM Spike", Frac(3, 10)), Alert("High CPM - Check URL"),
       Alert("Major Impression Lag")>>}

\* the next line item of the table, under IO 1 or IO 2
LoadAlertRow ==
    \E io_id \in {1, 2}, cells \in AlertCells :
        LoadRow(AlertRow(io_id, Len(df) + 1, cells))

NextEmail ==
    \/ LoadAlertRow
    \/ RunEmailBody

SpecEmail == Init /\ [][NextEmail]_vars

(***************************************************************************)
(* Claims on the report (SpecEmail)                                        *)
(***************************************************************************)
\* the cells of the input table that differ from 'OK': <<row, column>>
AlertingCells ==
    {<<i, c>> \in (DOMAIN df) \X (DOMAIN alert_columns) :
        df[i][alert_columns[c]] # Ok}

\* C14: generate_email_body returns None if and only if every one of the
\* five alert columns is 'OK' on every input row; as soon as one cell differs
\* from 'OK' it returns a report that is not empty.
C14_NoneIffAllOk ==
    Called("generate_email_body") =>
        /\ out = None <=> AlertingCells = {}
        /\ AlertingCells # {}
               => /\ out.kind = "html"
                  /\ out.rows # <<>>
                  /\ \A g \in DOMAIN out.rows : out.rows[g].issues # <<>>

\* a table with a healthy row and an alerting row is reported
C14_OneAlertAmongOk ==
    /\ Called("generate_email_body")
    /\ out # None
    /\ \E i \in DOMAIN df : \A c \in DOMAIN alert_columns : df[i][alert_columns[c]] = Ok

\* the alerting cells of the rows of IO io_id, in row order and then column
\* order, from position n on (n counts the cells row by row)
RECURSIVE CellsFrom(_, _)
CellsFrom(io_id, n) ==
    IF n >= Len(df) * Len(alert_columns) THEN <<>>
    ELSE LET i == (n \div Len(alert_columns)) + 1
             c == (n % Len(alert_columns)) + 1
         IN  (IF df[i].row.IO_ID = io_id /\ <<i, c>> \in AlertingCells
              THEN <<[col |-> alert_columns[c], issue |-> df[i][alert_columns[c]]]>>
              ELSE <<>>)
             \o CellsFrom(io_id, n + 1)

\* C15: when generate_email_body produces output, the (alert column, status)
\* pairs it lists are exactly the input cells whose status differs from
\* 'OK': each appears once, under the section of its row's IO_ID, in row
\* order and then in the fixed column order; no 'OK' cell is listed, no
\* alerting row is lost and no section is emitted for an IO without an
\* alerting row.
C15_ListsExactlyAlertingCells ==
    (Called("generate_email_body") /\ out # None) =>
        /\ {out.rows[g].IO_ID : g \in DOMAIN out.rows}
               = {df[cell[1]].row.IO_ID : cell \in AlertingCells}
        /\ \A g, h \in DOMAIN out.rows :
               out.rows[g].IO_ID = out.rows[h].IO_ID => g = h
        /\ \A g \in DOMAIN out.rows :
               /\ out.rows[g].issues = CellsFrom(out.rows[g].IO_ID, 0)
               /\ \A k \in DOMAIN out.rows[g].issues :
                      out.rows[g].issues[k].issue # Ok

\* two IOs alert, one of them with a row of two alerts after a healthy row
C15_TwoSections ==
    /\ Called("generate_email_body")
    /\ out # None
    /\ Len(out.rows) = 2
    /\ \E g \in DOMAIN out.rows : Len(out.rows[g].issues) >= 2

(***************************************************************************)
(* Claims on tables with several rows of an entity on one date (SpecDaily) *)
(***************************************************************************)
\* the total of column col over the rows i..Len(df) of entity e dated within
\* from..to
RECURSIVE DayTotal(_, _, _, _, _)
DayTotal(e, from, to, col, i) ==
    IF i > Len(df) THEN 0
    ELSE (IF df[i].io = e /\ df[i].Date >= from /\ df[i].Date <= to
          THEN df[i][col] ELSE 0)
         + DayTotal(e, from, to, col, i + 1)

\* the entities with a row on the date
EntitiesOn(date) == {df[i].io : i \in {j \in DOMAIN df : df[j].Date = date}}

\* C16: several rows of one entity on the same date are summed into one row
\* per (entity, date) before any shift or cumulative step: the result for a
\* target date has exactly one row per entity, the day-over-day comparison
\* uses the summed day totals, and the cumulative flight-to-date value is the
\* same on every output row of the entity.
C16_SameDateRowsSummed ==
    /\ Called("calculate_io_metrics") =>
           /\ \A e \in EntitiesOn(target) :
                  Cardinality({k \in DOMAIN out.rows : out.rows[k].r.io = e}) = 1
           /\ \A o \in OutRows :
                  /\ o.Today_Spend = DayTotal(o.r.io, target, target, "Spends", 1)
                  /\ o.Yesterday_Spend
                         = Num(DayTotal(o.r.io, target - 1, target - 1, "Spends", 1))
                  /\ o.Actual_FTD = DayTotal(o.r.io, 0, target, "Spends", 1)
    /\ (Called("calculate_li_daily_metrics") /\ IsDataFrame) =>
           /\ Len(out.rows) = Cardinality(EntitiesOn(target))
           /\ \A o \in OutRows :
                  \E e \in EntitiesOn(target) :
                      o.Achieved_CPM
                          = Round2(SafeRatio(DayTotal(e, target, target, "Spends", 1),
                                             DayTotal(e, target, target, "Impressions", 1),
                                             1000))
    /\ Called("get_processed_data") =>
           \A o \in OutRows :
               /\ Cardinality({k \in DOMAIN out.rows :
                                  /\ out.rows[k].row.r.io = o.row.r.io
                                  /\ out.rows[k].row.r.Date = o.row.r.Date}) = 1
               /\ o.row.spend
                      = DayTotal(o.row.r.io, o.row.r.Date, o.row.r.Date, "Spends", 1)

\* the part of C16 that holds: calculate_li_daily_metrics sums the rows of a
\* line item on the target date
C16_LiDailySummed ==
    Called("calculate_li_daily_metrics") => C16_SameDateRowsSummed

\* calculate_li_daily_metrics ran on a date with two rows of one line item
C16_TwoRowsOneDay ==
    /\ Called("calculate_li_daily_metrics")
    /\ \E i, j \in DOMAIN df :
           i # j /\ df[i].io = df[j].io /\ df[i].Date = target /\ df[j].Date = target

(***************************************************************************)
(* Requests for a date: tables of one funded flight with records on two    *)
(* dates, asked about those dates and about dates without a record         *)
(***************************************************************************)
\* the day before the first record, the record dates, the day between them
\* and the day after the last
RequestDates == 1..5

RunAnalyzeCpmOn ==
    \E t \in RequestDates :
        Call("analyze_cpm_performance", t, NoThreshold, analyze_cpm_performance(df, t))

RunLiDailyMetricsOn ==
    \E t \in RequestDates :
        Call("calculate_li_daily_metrics", t, NoThreshold,
             calculate_li_daily_metrics(df, t))

RunIoMetricsOn ==
    \E t \in RequestDates :
        Call("calculate_io_metrics", t, NoThreshold, calculate_io_metrics(df, t))

RunIoPgLagOn ==
    \E t \in RequestDates :
        Call("calculate_io_pg_lag", t, Num(DefaultLagThreshold),
             calculate_io_pg_lag(df, t, Num(DefaultLagThreshold)))

RequestAttrs ==
    [Planned_Budget |-> 1000, IO_Start_Date |-> 1, IO_End_Date |-> 10,
     IO_Pacing |-> "Even", Goal |-> 10, CTR_Goal |-> 1, flight_days |-> 10]

\* a healthy day, a day with a third of the delivery, a day with the spend
\* up by 30%
RequestMetrics ==
    {Metrics(100, 10000, 10, 500), Metrics(100, 3000, 10, 500),
     Metrics(130, 10000, 10, 500)}

LoadRequestRow ==
    \E io \in {1, 2}, date \in {2, 4}, m \in RequestMetrics :
        LoadRow(MkRow(io, date, m, RequestAttrs))

NextRequest ==
    \/ LoadRequestRow
    \/ RunAnalyzeCpmOn
    \/ RunLiDailyMetricsOn
    \/ RunIoMetricsOn
    \/ RunIoPgLagOn

SpecRequest == Init /\ [][NextRequest]_vars

(***************************************************************************)
(* Claims on requests for a date without records (SpecRequest)             *)
(***************************************************************************)
CalledPerDate ==
    \/ Called("analyze_cpm_performance")
    \/ Called("calculate_li_daily_metrics")
    \/ Called("calculate_io_metrics")
    \/ Called("calculate_io_pg_lag")

\* the empty-result signal: a message, or a table without rows
EmptyResult == out.kind = "str" \/ (IsDataFrame /\ out.rows = <<>>)

\* C17: when the requested target date has zero matching rows,
\* analyze_cpm_performance, calculate_li_daily_metrics, calculate_io_metrics
\* and calculate_io_pg_lag each return an explicit empty-result signal, and
\* the signal differs from the result of a run in which rows exist for the
\* date.
C17_EmptySignalWithoutRowsOnDate ==
    CalledPerDate =>
        /\ EntitiesOn(target) = {} => EmptyResult
        /\ EntitiesOn(target) # {} => ~EmptyResult

\* C17 as the code has it: the three functions that filter Date == target
\* signal exactly when no row is dated the target date
\* (analyze_cpm_performance with a message, the others with a table without
\* rows); calculate_io_pg_lag filters Date <= target, signals exactly when no
\* row is dated on or before the target date, and otherwise returns one row
\* for every entity with such a record, whether or not a row is dated the
\* target date itself.
C17_EmptySignalPerDateFilter ==
    /\ Called("analyze_cpm_performance") =>
           /\ EntitiesOn(target) = {} <=> out.kind = "str"
           /\ EntitiesOn(target) # {} <=> (IsDataFrame /\ out.rows # <<>>)
    /\ (Called("calculate_li_daily_metrics") \/ Called("calculate_io_metrics")) =>
           /\ IsDataFrame
           /\ EntitiesOn(target) = {} <=> out.rows = <<>>
    /\ Called("calculate_io_pg_lag") =>
           /\ IsDataFrame
           /\ EntitiesUpTo(target) = {} <=> out.rows = <<>>
           /\ {o.r.io : o \in OutRows} = EntitiesUpTo(target)
           /\ Len(out.rows) = Cardinality(EntitiesUpTo(target))

\* calculate_io_pg_lag asked about a date without a row, after a record
C17_LagOnDateWithoutRows ==
    /\ Called("calculate_io_pg_lag")
    /\ EntitiesOn(target) = {}
    /\ out.rows # <<>>

\* a date without any row: the message of analyze_cpm_performance
C17_NoDataMessage ==
    /\ Called("analyze_cpm_performance")
    /\ EntitiesOn(target) = {}
    /\ out.kind = "str"

(***************************************************************************)
(* Raw tables: the Date column as read from a CSV file (text) and a Spends *)
(* column that may hold text that is no number.  A call converts columns   *)
(* of the caller's table in place before it works on a sorted copy, so a   *)
(* second call on the same table object sees the converted columns.        *)
(***************************************************************************)
\* a cell holding text that reads as the value v
Text(v) == [k |-> "text", ok |-> TRUE, v |-> v]

\* a cell holding text that reads as no date and no number
BadText == [k |-> "text", ok |-> FALSE, v |-> 0]

\* a datetime64 cell
Datetime(v) == [k |-> "datetime", ok |-> TRUE, v |-> v]

\* the missing datetime
NaT == [k |-> "NaT", ok |-> FALSE, v |-> 0]

\* a numeric cell
Number(v) == [k |-> "number", ok |-> TRUE, v |-> v]

\* the exception a call ends with
Raised(error) == [kind |-> "raised", rows |-> <<>>, error |-> error]

\* pd.to_datetime(col) raises when a cell cannot be parsed
DateParseFails(d) == \E i \in DOMAIN d : d[i].Date = BadText

\* pd.to_datetime(col) of a column it can parse
to_datetime(cell) == IF cell.k = "text" THEN Datetime(cell.v) ELSE cell

\* pd.to_datetime(col, errors='coerce')
to_datetime_coerce(cell) ==
    IF cell.k = "text" THEN (IF cell.ok THEN Datetime(cell.v) ELSE NaT) ELSE cell

\* pd.to_numeric(col, errors='coerce').fillna(0)
to_numeric_fillna(cell) ==
    IF cell.k = "text" THEN Number(IF cell.ok THEN cell.v ELSE 0) ELSE cell

\* a column holding text is of dtype object: arithmetic on it raises
ObjectSpends(d) == \E i \in DOMAIN d : d[i].Spends.k = "text"

\* df['Date'] = pd.to_datetime(df['Date']) on the caller's table
ParsedDates(d) == [i \in DOMAIN d |-> [d[i] EXCEPT !.Date = to_datetime(@)]]

\* df['Date'] = pd.to_datetime(df['Date'], errors='coerce') on the caller's
\* table
CoercedDates(d) == [i \in DOMAIN d |-> [d[i] EXCEPT !.Date = to_datetime_coerce(@)]]

\* mutant: Spends is overwritten with the running total of the rows before
\* it in the table
CpmInPlace_RunningSpends(d) ==
    [i \in DOMAIN d |->
        [d[i] EXCEPT !.Date = to_datetime(@),
                     !.Spends = Number(to_numeric_fillna(@).v
                                       + (IF i > 1 THEN to_numeric_fillna(d[i - 1].Spends).v
                                          ELSE 0))]]

\* the caller's table after lines 19-39 of analyze_cpm_performance: dates
\* parsed, numeric columns coerced and filled with 0
CpmInPlace(d) ==
    [i \in DOMAIN d |->
        [d[i] EXCEPT !.Date = to_datetime(@), !.Spends = to_numeric_fillna(@)]]

\* the rows with a date, as the values the calculations work on; a row with
\* NaT sorts last in its entity and matches no date
Values(d) ==
    LET dated == Filter(d, {i \in DOMAIN d : d[i].Date.k = "datetime"}, 1)
    IN  [i \in DOMAIN dated |->
            [dated[i] EXCEPT !.Date = @.v, !.Spends = @.v]]

\* one call of a function on table d: what it returns or raises, and the
\* caller's table afterwards
Outcome(result, table) == [result |-> result, table |-> table]

pacing_alerts_call(d) ==
    IF DateParseFails(d) THEN Outcome(Raised("ValueError"), d)
    ELSE IF ObjectSpends(d) THEN Outcome(Raised("TypeError"), ParsedDates(d))
    ELSE Outcome(calculate_pacing_alerts(Values(ParsedDates(d))), ParsedDates(d))

cpm_performance_call(d, t) ==
    IF DateParseFails(d) THEN Outcome(Raised("ValueError"), d)
    ELSE Outcome(analyze_cpm_performance(Values(CpmInPlace(d)), t), CpmInPlace(d))

\* reads the file again on every call; Spends is not among the columns used
impression_alert_call(d) ==
    IF DateParseFails(d) THEN Outcome(Raised("ValueError"), d)
    ELSE Outcome(generate_impression_alert(
                     [i \in DOMAIN d |-> [Values(ParsedDates(d))[i] EXCEPT !.Spends = 0]]), d)

io_metrics_call(d, t) ==
    IF ObjectSpends(d) THEN Outcome(Raised("TypeError"), CoercedDates(d))
    ELSE Outcome(calculate_io_metrics(Values(CoercedDates(d)), t), CoercedDates(d))

\* what two calls in a row return
Twice(first, second) ==
    [kind |-> "twice", rows |-> <<>>, first |-> first, second |-> second]

\* a script calls a function on its table and then once more on the same
\* table object
CallTwice(name, t, first, second) ==
    /\ fn = "none"
    /\ df # <<>>
    /\ fn' = name
    /\ target' = t
    /\ threshold' = NoThreshold
    /\ out' = Twice(first.result, second.result)
    /\ df' = second.table

RunPacingAlertsTwice ==
    LET first == pacing_alerts_call(df)
    IN  CallTwice("calculate_pacing_alerts", NoDate, first,
                  pacing_alerts_call(first.table))

RunAnalyzeCpmTwice ==
    \E t \in {1, 2} :
        LET first == cpm_performance_call(df, t)
        IN  CallTwice("analyze_cpm_performance", t, first,
                      cpm_performance_call(first.table, t))

RunGenerateImpressionAlertTwice ==
    LET first == impression_alert_call(df)
    IN  CallTwice("generate_impression_alert", NoDate, first,
                  impression_alert_call(first.table))

RunIoMetricsTwice ==
    \E t \in {1, 2} :
        LET first == io_metrics_call(df, t)
        IN  CallTwice("calculate_io_metrics", t, first,
                      io_metrics_call(first.table, t))

\* works on daily_df, a copy of the rows of the date, after it has coerced
\* the Date column of the caller's table
li_daily_metrics_call(d, t) ==
    Outcome(calculate_li_daily_metrics(Values(CoercedDates(d)), t), CoercedDates(d))

\* works on df.copy(); Spends is not among the columns used
io_pg_lag_call(d, t) ==
    Outcome(calculate_io_pg_lag(
                [i \in DOMAIN Values(CoercedDates(d)) |->
                    [Values(CoercedDates(d))[i] EXCEPT !.Spends = 0]],
                t, Num(DefaultLagThreshold)), d)

RunLiDailyMetricsTwice ==
    \E t \in {1, 2} :
        LET first == li_daily_metrics_call(df, t)
        IN  CallTwice("calculate_li_daily_metrics", t, first,
                      li_daily_metrics_call(first.table, t))

RunIoPgLagTwice ==
    \E t \in {1, 2} :
        LET first == io_pg_lag_call(df, t)
        IN  CallTwice("calculate_io_pg_lag", t, first,
                      io_pg_lag_call(first.table, t))

\* a day of the funded flight: date 1 or 2 or text that is no date, spend
\* 100 or 130 or text that is no number
LoadRawRow ==
    \E io \in {1, 2}, date \in {Text(1), Text(2), BadText},
       spend \in {Number(100), Number(130), BadText} :
        LoadRow([MkRow(io, 1, Metrics(0, 1000, 10, 500), RequestAttrs)
                     EXCEPT !.Date = date, !.Spends = spend])

NextRaw ==
    \/ LoadRawRow
    \/ RunPacingAlertsTwice
    \/ RunAnalyzeCpmTwice
    \/ RunGenerateImpressionAlertTwice
    \/ RunIoMetricsTwice
    \/ RunLiDailyMetricsTwice
    \/ RunIoPgLagTwice

SpecRaw == Init /\ [][NextRaw]_vars

(***************************************************************************)
(* Claims on repeated calls and on unparseable fields (SpecRaw)            *)
(***************************************************************************)
\* C18: running an evaluation function twice on the same table and target
\* date, the second time on the table object the first run has processed,
\* gives the same statuses and deviation values for every (entity, date).
C18_SecondRunSameResult ==
    fn # "none" => out.second = out.first

\* analyze_cpm_performance evaluated two days of an entity twice, the second
\* time on the table with the dates and numbers it converted in place
C18_RerunOnProcessedTable ==
    /\ Called("analyze_cpm_performance")
    /\ out.first.kind = "DataFrame"
    /\ out.first.rows # <<>>
    /\ \A i \in DOMAIN df : df[i].Date.k = "datetime" /\ df[i].Spends.k = "number"
    /\ \E i, j \in DOMAIN df :
           /\ df[i].io = df[j].io
           /\ df[i].Date.v < df[j].Date.v
           /\ df[i].Spends.v > 0

\* C19: no input is fatal: with a date or a number that cannot be parsed in
\* some row, calculate_pacing_alerts, analyze_cpm_performance,
\* generate_impression_alert and calculate_io_metrics recover the field
\* (the date becomes the unknown date, the number 0) and return their
\* evaluation of the table.
C19_NoInputIsFatal ==
    fn # "none" => out.first.kind # "raised"

\* the part of C19 that holds: the numeric columns of analyze_cpm_performance
\* and the date columns of calculate_io_metrics are recovered per field
C19_RecoveredPerField ==
    /\ Called("analyze_cpm_performance") =>
           \/ out.first.kind # "raised"
           \/ \E i \in DOMAIN df : df[i].Date = BadText
    /\ Called("calculate_io_metrics") =>
           \/ out.first.kind # "raised"
           \/ \E i \in DOMAIN df : df[i].Spends = BadText

\* calculate_io_metrics returned the rows of the target date of a table with
\* a row whose date could not be parsed
C19_RowWithoutDateSkipped ==
    /\ Called("calculate_io_metrics")
    /\ out.first.kind = "DataFrame"
    /\ out.first.rows # <<>>
    /\ \E i \in DOMAIN df : df[i].Date = NaT

(***************************************************************************)
(* Claims on pacing strategies that are neither AHEAD nor ASAP (SpecPacing)*)
(***************************************************************************)
\* C20: a row whose pacing-strategy string is recognized as neither AHEAD
\* nor ASAP is evaluated by calculate_pacing_alerts with the EVEN ideal
\* budget * elapsed days / flight days and the general thresholds of 20%
\* (Overspending above +20, Underspending below -20, On Track otherwise),
\* and the call returns a row for every row of the table.
C20_UnknownStrategyEvaluatedAsEven ==
    Called("calculate_pacing_alerts") =>
        /\ IsDataFrame
        /\ Len(out.rows) = Len(df)
        /\ \A o \in OutRows :
               (~ContainsAhead(o.r.IO_Pacing) /\ ~ContainsAsap(o.r.IO_Pacing)) =>
                   /\ o.Ideal_Spend_to_Date
                          = Frac(o.r.Planned_Budget * o.Days_Elapsed, o.Total_Days)
                   /\ o.Deviation_Pct
                          = Round2(ExactDeviation(o.Cumulative_Spend,
                                                  o.Ideal_Spend_to_Date))
                   /\ SpendStatusBy(o, o.Deviation_Pct)

\* a row with the strategy 'Custom' in a funded flight is Overspending, and
\* one is measured against less than the budget
C20_CustomStrategyOverspending ==
    /\ Called("calculate_pacing_alerts")
    /\ \E o \in OutRows :
           /\ o.r.IO_Pacing = "Custom"
           /\ o.r.Planned_Budget > 0
           /\ o.Days_Elapsed < o.Total_Days
           /\ o.Pacing_Status.label = "Overspending"

(***************************************************************************)
(* Series: tables of two entities of one funded flight, each with records  *)
(* on any of three dates (two consecutive days and a day after a gap)      *)
(***************************************************************************)
SeriesAttrs ==
    [Planned_Budget |-> 1000, IO_Start_Date |-> 1, IO_End_Date |-> 10,
     IO_Pacing |-> "Even", Goal |-> 400, CTR_Goal |-> 1, flight_days |-> 10]

\* a base day (CPM 100) and a day with half the impressions at 1.5 times the
\* spend (CPM 300)
SeriesMetrics == {Metrics(100, 1000, 10, 500), Metrics(150, 500, 10, 250)}

SeriesDates == {1, 2, 4}

LoadSeriesRow ==
    \E io \in {1, 2}, date \in SeriesDates, m \in SeriesMetrics :
        LoadRow(MkRow(io, date, m, SeriesAttrs))

NextSeries ==
    \/ LoadSeriesRow
    \/ RunPacingAlerts
    \/ RunIoMetrics
    \/ RunAnalyzeCpm
    \/ RunGenerateImpressionAlert
    \/ RunGetProcessedData
    \/ RunIoPgLag

SpecSeries == Init /\ [][NextSeries]_vars

(***************************************************************************)
(* Claims on the series of an entity (SpecSeries)                          *)
(***************************************************************************)
\* the function that ran, applied to another table with the same target
Evaluate(d) ==
    IF Called("calculate_pacing_alerts") THEN calculate_pacing_alerts(d)
    ELSE IF Called("calculate_io_metrics") THEN calculate_io_metrics(d, target)
    ELSE IF Called("analyze_cpm_performance") THEN analyze_cpm_performance(d, target)
    ELSE IF Called("generate_impression_alert") THEN generate_impression_alert(d)
    ELSE IF Called("get_processed_data") THEN get_processed_data(d)
    ELSE calculate_io_pg_lag(d, target, threshold)

\* the input row an output row reports on
SourceRow(o) == IF Called("get_processed_data") THEN o.row.r ELSE o.r

\* the output rows of entity e, in order
RowsOfEntity(rows, e) ==
    Filter(rows, {k \in DOMAIN rows : SourceRow(rows[k]).io = e}, 1)

\* the rows of entity e in the table, in order
Slice(e) == Filter(df, {i \in DOMAIN df : df[i].io = e}, 1)

\* C21: cumulative sums and previous-value shifts never cross entity
\* boundaries: what a function reports for an entity is what it reports when
\* it is given the rows of that entity alone, whatever the rows of the other
\* entities are.
C21_EntitySliceGivesSameRows ==
    (fn # "none" /\ df # <<>>) =>
        \A e \in {df[i].io : i \in DOMAIN df} :
            RowsOfEntity(out.rows, e) = Evaluate(Slice(e)).rows

\* calculate_pacing_alerts on a table of two entities: the entity sorted
\* second starts its cumulative spend from its own first record
C21_SecondEntityStartsAfresh ==
    /\ Called("calculate_pacing_alerts")
    /\ Len(out.rows) >= 2
    /\ out.rows[1].r.io # out.rows[Len(out.rows)].r.io
    /\ \E k \in DOMAIN out.rows :
           /\ k > 1
           /\ out.rows[k].r.io # out.rows[1].r.io
           /\ out.rows[k].Cumulative_Spend = out.rows[k].r.Spends


\* entity e has a record dated date
HasRecordOn(e, date) == \E i \in DOMAIN df : df[i].io = e /\ df[i].Date = date

\* the row is dated after a gap: its entity has older records but none on
\* the day before
AfterGap(r) ==
    /\ ~HasRecordOn(r.io, r.Date - 1)
    /\ \E i \in DOMAIN df : df[i].io = r.io /\ df[i].Date < r.Date

\* C22: the day-over-day baseline of (entity, date D) is the entity's value
\* on the calendar date D - 1; when the entity has no record on D - 1 but has
\* older records, the day-over-day deviation is 0 and is never computed
\* against the older record, in calculate_io_metrics,
\* analyze_cpm_performance, generate_impression_alert and
\* get_processed_data.
C22_BaselineIsPreviousCalendarDay ==
    /\ Called("calculate_io_metrics") =>
           \A o \in OutRows :
               /\ HasRecordOn(o.r.io, target - 1) =>
                      \E i \in DOMAIN df :
                          /\ df[i].io = o.r.io
                          /\ df[i].Date = target - 1
                          /\ o.Yesterday_Spend = Num(df[i].Spends)
               /\ AfterGap(o.r) => o.DoD_Deviation = Num(0)
    /\ (Called("analyze_cpm_performance") /\ IsDataFrame) =>
           \A o \in OutRows : AfterGap(o.r) => o.DoD_CPM_Change_Pct = Num(0)
    /\ Called("generate_impression_alert") =>
           \A o \in OutRows :
               AfterGap(o.r) => (o.Deviation_Pct = Num(0) /\ o.Status.label = "On Track")
    /\ Called("get_processed_data") =>
           \A o \in OutRows :
               AfterGap(o.row.r) =>
                   /\ o.Impression_Alert = Ok
                   /\ o.KPI_Alert = Ok
                   /\ o.Spend_Alert.label # "Spend Spike > 25%"

\* the part of C22 that holds: calculate_io_metrics takes yesterday's spend
\* from the rows dated target - 1 only
C22_IoMetricsUsesPreviousDay ==
    Called("calculate_io_metrics") => C22_BaselineIsPreviousCalendarDay

\* calculate_io_metrics reported a day after a gap
C22_IoMetricsAfterGap ==
    /\ Called("calculate_io_metrics")
    /\ \E o \in OutRows : AfterGap(o.r) /\ o.Today_Spend = 150 /\ o.Actual_FTD = 250


\* the rows of the table dated on or before date, in order
UpTo(date) == Filter(df, {i \in DOMAIN df : df[i].Date <= date}, 1)

CalledForDate ==
    \/ Called("calculate_io_metrics")
    \/ Called("analyze_cpm_performance")
    \/ Called("calculate_io_pg_lag")

\* C23: the result for a target date D depends only on the rows dated on or
\* before D: calculate_io_metrics, analyze_cpm_performance and
\* calculate_io_pg_lag return for the whole table what they return for the
\* table without its rows dated after D.
C23_LaterRowsChangeNothing ==
    CalledForDate => out = Evaluate(UpTo(target))

\* calculate_io_pg_lag reported an entity that has a record after the target
\* date
C23_RecordAfterTarget ==
    /\ Called("calculate_io_pg_lag")
    /\ \E o \in OutRows :
           \E i \in DOMAIN df : df[i].io = o.r.io /\ df[i].Date > target


(***************************************************************************)
(* Claims on the order of the rows in the table (SpecDaily)                *)
(***************************************************************************)
\* the permutations of the positions of the table
RowOrders ==
    {p \in [DOMAIN df -> DOMAIN df] : \A i, j \in DOMAIN df : p[i] = p[j] => i = j}

\* the table with its rows in the order p
Permuted(p) == [i \in DOMAIN df |-> df[p[i]]]

\* what a function reports, without the index labels: the flagged input
\* rows with their descriptions and deviation values
Alerts(name, result) ==
    IF name = "check_spend_pacing"
    THEN {<<x.row.r, x.Alert_Description, x.row.Spend_Deviation_Pct,
            x.row.DoD_Spend_Change>> : x \in {result.rows[k] : k \in DOMAIN result.rows}}
    ELSE IF name = "check_impression_alert"
    THEN {<<x.row.r, x.Alert_Description, x.row.DoD_Imp_Change,
            x.row.DoD_Imp_Change>> : x \in {result.rows[k] : k \in DOMAIN result.rows}}
    ELSE IF name = "check_kpi_spikes"
    THEN {<<x.row.r, x.metric, x.Metric_Value, x.Change_Pct>> :
              x \in {result.rows[k] : k \in DOMAIN result.rows}}
    ELSE IF name = "check_impression_lag"
    THEN {<<x.row.r, x.Alert_Description, x.row.Actual_Cum_Imps,
            x.row.Impression_Lag_Pct>> : x \in {result.rows[k] : k \in DOMAIN result.rows}}
    ELSE {<<x.r, x.Status, x.DoD_CPM_Change_Pct, x.FTD_Achieved_CPM>> :
              x \in {result.rows[k] : k \in DOMAIN result.rows}}

\* the function that ran, applied to another order of the table
Reevaluate(d) ==
    IF Called("check_spend_pacing") THEN check_spend_pacing(d)
    ELSE IF Called("check_impression_alert") THEN check_impression_alert(d)
    ELSE IF Called("check_kpi_spikes") THEN check_kpi_spikes(d)
    ELSE IF Called("check_impression_lag") THEN check_impression_lag(d)
    ELSE analyze_cpm_performance(d, target)

CalledOrderFree ==
    \/ Called("check_spend_pacing")
    \/ Called("check_impression_alert")
    \/ Called("check_kpi_spikes")
    \/ Called("check_impression_lag")
    \/ Called("analyze_cpm_performance")

\* no entity has two rows on one date
OneRowPerDay ==
    \A i, j \in DOMAIN df : (df[i].io = df[j].io /\ df[i].Date = df[j].Date) => i = j

\* C24: every shift and cumulative computation is applied to each entity's
\* series in ascending date order, so any permutation of the input rows
\* yields the same flagged rows with the same deviation values from
\* check_spend_pacing, check_impression_alert, check_kpi_spikes,
\* check_impression_lag and analyze_cpm_performance (stated for the tables
\* in which no entity has two rows on one date).
C24_RowOrderChangesNothing ==
    (CalledOrderFree /\ OneRowPerDay) =>
        \A p \in RowOrders :
            Alerts(fn, Reevaluate(Permuted(p))) = Alerts(fn, out)

\* the part of C24 that holds: analyze_cpm_performance sorts by entity and
\* date before it shifts and sums, so the order of the table is immaterial
C24_SortedBeforeShift ==
    Called("analyze_cpm_performance") => C24_RowOrderChangesNothing

\* analyze_cpm_performance ran on a table whose rows were not in date order
C24_CpmOnUnsortedTable ==
    /\ Called("analyze_cpm_performance")
    /\ IsDataFrame
    /\ \E i, j \in DOMAIN df : i < j /\ df[i].io = df[j].io /\ df[i].Date > df[j].Date


(***************************************************************************)
(* Claims on the caller's table after a call (SpecRaw)                     *)
(***************************************************************************)
\* C25: an evaluation leaves the caller's input table unchanged: after
\* calculate_pacing_alerts, analyze_cpm_performance,
\* calculate_li_daily_metrics, calculate_io_metrics or calculate_io_pg_lag
\* has returned, the table passed in has the same cell values as before the
\* call.
C25_CallLeavesTableUnchanged ==
    [][(fn = "none" /\ fn' \in {"calculate_pacing_alerts", "analyze_cpm_performance",
                               "calculate_li_daily_metrics", "calculate_io_metrics",
                               "calculate_io_pg_lag"})
          => df' = df]_vars

\* the part of C25 that holds: calculate_io_pg_lag works on a copy, and a
\* call of generate_impression_alert has no table of the caller to change
C25_CopyLeavesTableUnchanged ==
    [][(fn = "none" /\ fn' \in {"calculate_io_pg_lag", "generate_impression_alert"})
          => df' = df]_vars

\* calculate_io_pg_lag returned rows for a table read from text, which still
\* holds its dates as text
C25_PgLagOnTextDates ==
    /\ Called("calculate_io_pg_lag")
    /\ out.first.rows # <<>>
    /\ \A i \in DOMAIN df : df[i].Date.k = "text"

====
